---- MODULE Spec2Model ----
(***************************************************************************)
(* A model of the claude-mem capture engine: the Gemini extraction agent   *)
(* (startSession, queryGeminiMultiTurn, truncateHistory, the module-level  *)
(* rate limiter), the spawn lock, and the pending-message store.           *)
(*                                                                         *)
(* The module holds several specifications over disjoint groups of         *)
(* variables; a specification keeps the groups it does not use at their    *)
(* initial value.                                                          *)
(*   Spec       - one run of GeminiAgent.startSession for one session      *)
(*   SpecFair   - the same run with timers firing and fetches settling     *)
(*   SpecTrunc  - truncateHistory on bounded histories and settings        *)
(*   SpecRate   - the rate limiter and retry waits of concurrent sessions  *)
(*   SpecLock   - acquireSpawnLock / releaseSpawnLock of two processes     *)
(*   SpecStore  - the pending-message store, drain loops and summaries     *)
(*   SpecRec    - message statuses across crashes and recoverOnStartup     *)
(*   SpecSearch - search over SQLite and an unreliable ChromaDB            *)
(*   SpecHook   - summarizeHandler.execute and the project filters         *)
(*   SpecWait   - the waits of one queryGeminiMultiTurn retry loop          *)
(*   SpecBackoff - calculateBackoffDelay on bounded attempts and delays    *)
(*   SpecEnsure - ensureWorkerRunning polling the worker                   *)
(*   SpecCache  - the cached settings getters and clearPortCache           *)
(*   SpecInstall - installDeps after needsInstall() returned true          *)
(***************************************************************************)
EXTENDS Integers, Sequences, FiniteSets, TLC

VARIABLES
    \* ---- GeminiAgent.startSession, one session ----
    cfg,            \* settings read by getGeminiConfig / the catch block
    pc,             \* position of the startSession coroutine
    qpc,            \* position inside queryGeminiMultiTurn
    attempt,        \* the retry loop's attempt index
    consec429,      \* consecutive HTTP 429 answers to the current request
    queue,          \* pending_messages of the session, oldest first
    nextId,         \* next pending_messages.id
    cur,            \* the message claimed by the running loop iteration
    inFlight,       \* ids claimed and not yet through processAgentResponse
    history,        \* session.conversationHistory
    memorySessionId,\* session.memorySessionId assigned
    lastPromptNumber, \* session.lastPromptNumber
    processed,      \* processAgentResponse calls, in call order
    err,            \* the error travelling to / caught by startSession
    lastFail,       \* the failed answer of the latest attempt
    abortSignal,    \* the session's abort signal
    fallbackCalls,  \* calls of fallbackAgent.startSession by this run
    fallbackHistory,\* conversationHistory of the session handed over
    pushed,         \* every turn pushed onto conversationHistory, in push order
    qRequests,      \* HTTP requests sent by the current queryGeminiMultiTurn call
    abortAt,        \* where the run was when the abort was signalled
    \* ---- GeminiAgent.truncateHistory ----
    tHistory,       \* the stored conversation history given to truncateHistory
    tSettings,      \* CLAUDE_MEM_GEMINI_MAX_CONTEXT_MESSAGES / _MAX_TOKENS
    tResult,        \* the history truncateHistory returned
    tPc,            \* "input" before the call, "done" after it
    \* ---- the module-level rate limiter and the retry loop's requests ----
    now,            \* Date.now(), in ms
    lastRequestTime,\* the module-level lastRequestTime
    rCfg,           \* the configured model and rateLimitingEnabled
    rpc,            \* per caller: position in queryGeminiMultiTurn
    wakeAt,         \* per caller: when its pending setTimeout is due
    rAttempt,       \* per caller: the retry loop's attempt index
    lastSent,       \* when the latest HTTP request was sent (-1: none yet)
    sentCount,      \* HTTP requests sent
    minGap          \* smallest time between two consecutive capped
                    \* at the model's minimum delay (-1: fewer than two requests)
    ,
    \* ---- SpawnLock ----
    lockFile,       \* ~/.claude-mem/spawn.lock
    lockNow,        \* Date.now() of the spawn-lock model, in ms
    lpc,            \* per process: position in acquireSpawnLock / releaseSpawnLock
    lockInfo,       \* per process: the LockInfo it parsed
    lCall,          \* per process: "stale_alone" while its acquireSpawnLock call,
                    \* begun on a stale or corrupted lock, has run undisturbed
    holds,          \* per process: acquireSpawnLock returned true, not yet released
    \* ---- pending-message store, session orchestrator, summaries ----
    sQueue,         \* pending_messages rows with status pending, oldest first
    sNextId,        \* next pending_messages.id
    claimCount,     \* per message id: how often claimAndDeleteNext returned it
    active,         \* sessions registered as having an Active drain loop
    running,        \* per session: drain loops started and not yet ended
    loopMsg,        \* per session: the message its drain loop is processing
    extMsg,         \* the message held by a claimant outside the orchestrator
    lastReport,     \* the latest triggerProcessing report
    summaries,      \* session_summaries rows (their memory_session_id)
    sumAttempts,    \* per session: summarize messages processed
    \* ---- PendingMessageQueue statuses and recoverOnStartup ----
    rStatus,        \* per message id: its pending_messages.status ("none": no row)
    rBefore,        \* the statuses when the latest recoverOnStartup was called
    rPc,            \* the worker process: "up", "down", "recovered"
    \* ---- SearchManager.search over SQLite and ChromaDB ----
    sRows,          \* the rows of the relational store
    sIndex,         \* the metadata of the documents in ChromaDB
    sSync,          \* per record id, what became of its Chroma sync
    chromaUp,       \* whether ChromaDB can be reached
    sReq,           \* the latest search request
    sSnap,          \* the relational rows when that request was served
    sRes,           \* its outcome
    \* ---- summarizeHandler.execute and the project filters ----
    hAllowed,       \* CLAUDE_MEM_ALLOWED_PROJECTS_ONLY, split at the commas
    hIgnored,       \* CLAUDE_MEM_IGNORED_PROJECTS, split at the commas
    hNames,         \* projectContext.allProjects
    hTranscript,    \* whether input.transcriptPath is present
    hPc,            \* position of summarizeHandler.execute
    hIsIgnored,     \* what isProjectIgnored returned, as text ("none": not called)
    hStatus,        \* the HTTP status of the worker's answer (0: none)
    hRequests,      \* summarize requests sent to the worker
    hResult,        \* what execute returned or threw
    \* ---- one queryGeminiMultiTurn call and its answers ----
    wMaxAttempts,   \* maxAttempts
    wBase,          \* baseDelayMs
    wAttempt,       \* the retry loop's attempt index
    wStatus,        \* the HTTP status of the latest answer (0: none)
    wBody,          \* the retryDelay text of its body
    wDelay,         \* the delay of the latest setTimeout (-1: none)
    wPc,            \* "fetch", "wait", "returned", "thrown"
    \* ---- calculateBackoffDelay on bounded attempts and base delays ----
    bN,             \* attempt
    bBase,          \* baseDelayMs
    bDelay,         \* the delay for attempt, in thousandths of a millisecond (-1: none)
    bNext,          \* the delay for attempt + 1 with a jitter of its own
    bPc,            \* "input", "done"
    \* ---- ensureWorkerRunning polling the worker ----
    eI,             \* the loop index i
    eChecks,        \* readiness checks performed
    eLast,          \* the outcome of the latest readiness check
    eReady,         \* "yes" once a readiness check has succeeded
    ePc,            \* "poll", "version", "sleep", "returned", "thrown"
    \* ---- the cached settings of worker-utils ----
    cFile,          \* the contents of settings.json
    cCache,         \* cachedPort, cachedHost, cachedIgnoredProjects, cachedAllowedProjectsOnly
    cReads,         \* per getter: reads of the file since the latest clearPortCache
    cFirst,         \* per getter: what its first call since the latest clearPortCache returned
    cLast,          \* the getter called last and what it returned
    cCalls,         \* getter calls so far
    \* ---- smart-install: installDeps and needsInstall ----
    iBunFound,      \* getBunPath() found an executable
    iNodeModules,   \* ROOT/node_modules exists
    iMarker,        \* .install-version: "absent", "corrupt", "old_version", "old_bun", "current", or "fresh" once this run wrote it
    iTried,         \* the install commands run so far, each with its outcome
    iPc,            \* "start", "bun", "force", "npm", "marker", "returned", "thrown",
                    \* or "skipped" when needsInstall() returned false
    iRun            \* the number of the script's current run

agentVars == <<cfg, pc, qpc, attempt, consec429, queue, nextId, cur,
               inFlight, history, memorySessionId, lastPromptNumber, processed,
               err, lastFail, abortSignal, fallbackCalls, fallbackHistory,
               pushed, qRequests, abortAt>>

truncVars == <<tHistory, tSettings, tResult, tPc>>

rateVars == <<now, lastRequestTime, rCfg, rpc, wakeAt, rAttempt, lastSent,
              sentCount, minGap>>

lockVars == <<lockFile, lockNow, lpc, lockInfo, holds, lCall>>

storeVars == <<sQueue, sNextId, claimCount, active, running, loopMsg, extMsg,
               lastReport, summaries, sumAttempts>>

recVars == <<rStatus, rBefore, rPc>>

searchVars == <<sRows, sIndex, sSync, chromaUp, sReq, sSnap, sRes>>

hookVars == <<hAllowed, hIgnored, hNames, hTranscript, hPc, hIsIgnored,
              hStatus, hRequests, hResult>>

waitVars == <<wMaxAttempts, wBase, wAttempt, wStatus, wBody, wDelay, wPc>>

backoffVars == <<bN, bBase, bDelay, bNext, bPc>>

ensureVars == <<eI, eChecks, eLast, eReady, ePc>>

cacheVars == <<cFile, cCache, cReads, cFirst, cLast, cCalls>>

installVars == <<iBunFound, iNodeModules, iMarker, iTried, iPc, iRun>>

vars == <<agentVars, truncVars, rateVars, lockVars, storeVars, recVars,
          searchVars, hookVars, waitVars,
          backoffVars,
          ensureVars,
          cacheVars,
          installVars>>

notBackoffVars == <<agentVars, truncVars, rateVars, lockVars, storeVars,
    recVars, searchVars, hookVars, waitVars,
    ensureVars,
    cacheVars,
    installVars>>
notEnsureVars == <<agentVars, truncVars, rateVars, lockVars, storeVars,
    recVars, searchVars, hookVars, waitVars, backoffVars,
    cacheVars,
    installVars>>
notCacheVars == <<agentVars, truncVars, rateVars, lockVars, storeVars,
    recVars, searchVars, hookVars, waitVars, backoffVars, ensureVars,
    installVars>>
notInstallVars == <<agentVars, truncVars, rateVars, lockVars, storeVars,
    recVars, searchVars, hookVars, waitVars, backoffVars, ensureVars, cacheVars>>
notAgentVars == <<truncVars, rateVars, lockVars, storeVars, recVars, searchVars, hookVars,
    waitVars,
    backoffVars,
    ensureVars,
    cacheVars,
    installVars>>
notTruncVars == <<agentVars, rateVars, lockVars, storeVars, recVars, searchVars, hookVars,
    waitVars,
    backoffVars,
    ensureVars,
    cacheVars,
    installVars>>
notRateVars == <<agentVars, truncVars, lockVars, storeVars, recVars, searchVars, hookVars,
    waitVars,
    backoffVars,
    ensureVars,
    cacheVars,
    installVars>>
notLockVars == <<agentVars, truncVars, rateVars, storeVars, recVars, searchVars, hookVars,
    waitVars,
    backoffVars,
    ensureVars,
    cacheVars,
    installVars>>
notStoreVars == <<agentVars, truncVars, rateVars, lockVars, recVars, searchVars, hookVars,
    waitVars,
    backoffVars,
    ensureVars,
    cacheVars,
    installVars>>
notRecVars == <<agentVars, truncVars, rateVars, lockVars, storeVars,
               searchVars, hookVars,
    waitVars,
    backoffVars,
    ensureVars,
    cacheVars,
    installVars>>
notSearchVars == <<agentVars, truncVars, rateVars, lockVars, storeVars,
                  recVars, hookVars,
    waitVars,
    backoffVars,
    ensureVars,
    cacheVars,
    installVars>>
notWaitVars == <<agentVars, truncVars, rateVars, lockVars, storeVars,
                recVars, searchVars, hookVars,
    backoffVars,
    ensureVars,
    cacheVars,
    installVars>>
notHookVars == <<agentVars, truncVars, rateVars, lockVars, storeVars,
                recVars, searchVars,
    waitVars,
    backoffVars,
    ensureVars,
    cacheVars,
    installVars>>

----------------------------------------------------------------------------
(* Bounds of the model *)

\* pending messages enqueued for the session during one behaviour
MaxMsgs == 2
\* pending messages enqueued during one behaviour checked under fairness
MaxFairMsgs == 1
\* a configured CLAUDE_MEM_GEMINI_RETRY_MAX_ATTEMPTS other than the default
ConfiguredMaxAttempts == 2

\* turns of a conversation history given to truncateHistory
MaxHistLen == 3
\* largest configured CLAUDE_MEM_GEMINI_MAX_CONTEXT_MESSAGES
MaxCfgMessages == 2
\* largest configured CLAUDE_MEM_GEMINI_MAX_TOKENS
MaxCfgTokens == 3
\* HTTP requests sent during one behaviour of the rate-limiter model
MaxRequests == 3
\* time covered by one behaviour of the rate-limiter model, in ms
MaxElapsedMs == 13000
\* the step by which time advances when no timer is due sooner, in ms
TickMs == 3000
\* Date.now() when the behaviour starts (lastRequestTime starts at 0)
StartMs == 100000
\* time covered by one behaviour of the spawn-lock model, in ms
MaxLockMs == 80000
\* the step by which the spawn-lock model's time advances, in ms
LockTickMs == 20001
\* pending messages enqueued during one behaviour of the store model
MaxStoreMsgs == 3
\* pending_messages rows of the recovery model
MaxRecoverMsgs == 3
\* observation rows stored during one behaviour of the search model
MaxRows == 2
\* the day of the searches, and the day the old records were created
Today == 100
OldDay == 5
\* entries of a comma-separated project setting, names of a project context
MaxTokens == 2
MaxNames == 2
\* the largest configured CLAUDE_MEM_GEMINI_RETRY_MAX_ATTEMPTS of the wait model
MaxWaitAttempts == 3
\* the largest attempt index of the backoff model
MaxBackoffAttempt == 5
\* getter calls during one behaviour of the settings-cache model
MaxGetterCalls == 3
\* runs of the smart-install script during one behaviour
MaxInstallRuns == 2

(* Program constants *)
RECENCY_WINDOW_DAYS == 90
LOCK_STALE_THRESHOLD_MS == 60000
\* maxRetries of ensureWorkerRunning
maxRetries == 150
DEFAULT_RETRY_BASE_DELAY_MS == 5000
DEFAULT_RETRY_MAX_ATTEMPTS == 5
DEFAULT_GEMINI_MAX_CONTEXT_MESSAGES == 20
DEFAULT_GEMINI_MAX_ESTIMATED_TOKENS == 100000
CHARS_PER_TOKEN_ESTIMATE == 4

----------------------------------------------------------------------------
(* Values *)

NoMsg == [id |-> 0, type |-> "none", prompt_number |-> 0]
NoErr == [kind |-> "none", status |-> 0, text |-> "plain"]

\* prompt_number 0 stands for a message without prompt_number (undefined)
PromptNumbers == {0, 2}
MessageShapes ==
    {[type |-> "observation", prompt_number |-> n] : n \in PromptNumbers}
    \cup {[type |-> "summarize", prompt_number |-> 0]}

\* What one fetch can end with.  A failed HTTP answer becomes
\* Error(`Gemini API error: ${status} - ${errorText}`); text says whether the
\* message carries one of the rate-limit markers besides the status.
HttpFailures ==
    {[kind |-> "http", status |-> s, text |-> t] :
        s \in {429, 500}, t \in {"plain", "ratelimit"}}
NetworkFailures ==
    {[kind |-> "network", status |-> 0, text |-> t] : t \in {"plain", "ratelimit"}}
FetchFailures == HttpFailures \cup NetworkFailures
AbortError == [kind |-> "abort", status |-> 0, text |-> "plain"]
ConfigError == [kind |-> "config", status |-> 0, text |-> "plain"]

\* abortAt before any abort; afterwards "wait" (signalled during the
\* rate-limit wait or a backoff wait), "wait_sent" (and a request was sent
\* after it) or "other"
NoAbort == "none"

\* abortAt once a wait has run out and the next fetch is issued
AfterSend(a) == IF a = "wait" THEN "wait_sent" ELSE a

QueryPcs == {"init_query", "obs_query", "sum_query"}
ProcessPcs == {"init_process", "obs_process", "sum_process"}
EndPcs == {"completed", "aborted", "failed", "fallback"}

----------------------------------------------------------------------------
(* Pure functions of the agent *)

\* isRateLimitError: the message contains '429', 'rate limit',
\* 'resource_exhausted' or 'quota exceeded'
isRateLimitError(e) ==
    \/ e.kind = "http" /\ e.status = 429
    \/ e.text = "ratelimit"

\* parseInt(setting) || DEFAULT : 0 stands for unset, "0" or not a number
maxAttemptsOf(setting) ==
    IF setting = 0 THEN DEFAULT_RETRY_MAX_ATTEMPTS ELSE setting

maxAttempts == maxAttemptsOf(cfg.retrySetting)

\* agents/index.js isAbortError
isAbortError(e) == e.kind = "abort"

\* agents/index.js shouldFallbackToClaude(error, disableFallback)
shouldFallbackToClaude(e, disableFallback) ==
    /\ ~disableFallback
    /\ e.kind \in {"http", "network", "config"}

\* a catch block that lacks the isAbortError test
CatchOutcomeNoAbortCheck(e) ==
    IF cfg.fallbackSet /\ ~cfg.disableFallback THEN "fallback" ELSE "failed"

\* a catch block that does not read CLAUDE_MEM_DISABLE_CLAUDE_FALLBACK
CatchOutcomeIgnoreDisable(e) ==
    IF isAbortError(e) THEN "aborted"
    ELSE IF shouldFallbackToClaude(e, FALSE) /\ cfg.fallbackSet
         THEN "fallback"
         ELSE "failed"

\* the catch block of startSession: where the run ends for error e
CatchOutcome(e) ==
    IF isAbortError(e) THEN "aborted"
    ELSE IF shouldFallbackToClaude(e, cfg.disableFallback) /\ cfg.fallbackSet
         THEN "fallback"
         ELSE "failed"

\* a retry decision that forgets the attempt limit
RetryNoLimit(e, att, max) == isRateLimitError(e)

\* a retry loop that retries every failure while attempts remain
RetryAllTransient(e, att, max) == att < max - 1

\* the retry decision of one failed attempt (both the !response.ok branch
\* and the catch of the retry loop): TRUE = wait and try again
RetryDecision(e, att, max) ==
    \/ e.kind = "http" /\ e.status = 429 /\ att < max - 1
    \/ isRateLimitError(e) /\ att < max - 1

----------------------------------------------------------------------------
(* GeminiAgent.startSession *)

AgentInit ==
    /\ cfg \in [apiKey : BOOLEAN, disableFallback : BOOLEAN,
                fallbackSet : BOOLEAN,
                retrySetting : {0, ConfiguredMaxAttempts}]
    /\ pc = "idle"
    /\ qpc = "none"
    /\ attempt = 0
    /\ consec429 = 0
    /\ queue = <<>>
    /\ nextId = 1
    /\ cur = NoMsg
    /\ inFlight = {}
    /\ history = <<>>
    /\ memorySessionId = FALSE
    /\ lastPromptNumber = 1
    /\ processed = <<>>
    /\ err = NoErr
    /\ lastFail = NoErr
    /\ abortSignal = FALSE
    /\ fallbackCalls = 0
    /\ fallbackHistory = <<>>
    /\ pushed = <<>>
    /\ qRequests = 0
    /\ abortAt = NoAbort

\* the hook enqueues an observation or summarize message, the max-th at most
EnqueueUpTo(max) ==
    /\ nextId <= max
    /\ \E m \in MessageShapes :
        queue' = Append(queue, [id |-> nextId, type |-> m.type,
                                prompt_number |-> m.prompt_number])
    /\ nextId' = nextId + 1
    /\ UNCHANGED <<lastFail, cfg, pc, qpc, attempt, consec429, cur, inFlight,
                   history, memorySessionId, lastPromptNumber, processed, err,
                   abortSignal, fallbackCalls, fallbackHistory>>
    /\ UNCHANGED <<pushed, qRequests, abortAt>>
    /\ UNCHANGED notAgentVars

Enqueue == EnqueueUpTo(MaxMsgs)

\* the same under the smaller bound of the specification with fairness
EnqueueFair == EnqueueUpTo(MaxFairMsgs)

\* an external stop request
Abort ==
    /\ ~abortSignal
    /\ pc \notin EndPcs
    /\ abortSignal' = TRUE
    /\ abortAt' = IF pc \in QueryPcs /\ qpc \in {"ratelimit", "backoff"}
                  THEN "wait" ELSE "other"
    /\ UNCHANGED <<lastFail, cfg, pc, qpc, attempt, consec429, queue, nextId,
                   cur, inFlight, history, memorySessionId, lastPromptNumber,
                   processed, err, fallbackCalls, fallbackHistory>>
    /\ UNCHANGED <<pushed, qRequests>>
    /\ UNCHANGED notAgentVars

\* a query that stores the window it sends back into the session
HistoryTruncatedInPlace(h) ==
    IF Len(h) > 2 THEN SubSeq(h, Len(h) - 1, Len(h)) ELSE h

\* session.conversationHistory after queryGeminiMultiTurn took its window of
\* it: truncateHistory returns the array itself or builds a new one, the
\* session's array is not modified
HistoryAfterTruncate(h) == h

\* a start that does not test the API key
ApiKeyNeverMissing(c) == FALSE

\* if (!apiKey) throw new Error('Gemini API key not configured...')
ApiKeyMissing(c) == ~c.apiKey

\* startSession up to the first await: config, init prompt, first query
StartSession ==
    /\ pc = "idle"
    /\ IF ApiKeyMissing(cfg)
       THEN /\ err' = ConfigError
            /\ pc' = "catch"
            /\ UNCHANGED <<history, qpc, pushed>>
       ELSE /\ history' = HistoryAfterTruncate(
                              Append(history, [role |-> "user", ref |-> 0]))
            /\ pushed' = Append(pushed, [role |-> "user", ref |-> 0])
            /\ pc' = "init_query"
            /\ qpc' = "ratelimit"
            /\ UNCHANGED err
    /\ qRequests' = 0
    /\ attempt' = 0
    /\ consec429' = 0
    /\ UNCHANGED <<lastFail, cfg, queue, nextId, cur, inFlight,
                   memorySessionId, lastPromptNumber, processed, abortSignal,
                   fallbackCalls, fallbackHistory>>
    /\ UNCHANGED <<abortAt>>
    /\ UNCHANGED notAgentVars

\* enforceRateLimitForModel has returned (after its wait, if any); the
\* retry loop issues the first fetch
RateLimitDone ==
    /\ pc \in QueryPcs
    /\ qpc = "ratelimit"
    /\ qpc' = "fetch"
    /\ UNCHANGED <<lastFail, cfg, pc, attempt, consec429, queue, nextId, cur,
                   inFlight, history, memorySessionId, lastPromptNumber,
                   processed, err, abortSignal, fallbackCalls, fallbackHistory>>
    /\ abortAt' = AfterSend(abortAt)
    /\ UNCHANGED <<pushed, qRequests>>
    /\ UNCHANGED notAgentVars

\* the totalTokenCount of a response that reports one
SomeTokenCount == 10

\* what a 200 answer can hold: content parts with a totalTokenCount, or no
\* content part (only thoughts, blocked, no candidates) with or without (0)
\* a totalTokenCount
GeminiResponses ==
    {[text |-> "full", totalTokenCount |-> SomeTokenCount]}
    \cup [text : {"empty"}, totalTokenCount : {0, SomeTokenCount}]

\* parseGeminiResponse: without content parts it returns { content: '' },
\* with no tokensUsed
parseGeminiResponse(r) ==
    IF r.text = "empty"
    THEN [content |-> "empty", tokensUsed |-> 0]
    ELSE [content |-> "full", tokensUsed |-> r.totalTokenCount]

\* let tokensUsed = 0; if (response.content) tokensUsed = response.tokensUsed || 0
tokensUsedOf(resp) == IF resp.content = "full" THEN resp.tokensUsed ELSE 0

\* the turns pushed for a response: the assistant's content; for an empty
\* init response the placeholder '<acknowledged>' (ref -1); for an empty
\* observation or summary response nothing
TurnsAfterResponse(at, content, id) ==
    IF at = "init_query"
    THEN IF content = "full" THEN <<[role |-> "assistant", ref |-> 0]>>
                             ELSE <<[role |-> "assistant", ref |-> -1]>>
    ELSE IF content = "full" THEN <<[role |-> "assistant", ref |-> id]>>
                             ELSE <<>>

\* an init branch that assigns the memory session id only with content
EnsureOnlyWithContent(content) == content = "full"

\* sessionManager.ensureMemorySessionId(session, 'gemini') is called after
\* the init query returns, before the content is looked at
EnsureMemorySessionId(content) == TRUE

\* a loop body that skips processAgentResponse for an empty response
ProcessOnlyWithContent(content) == content = "full"

\* processAgentResponse(response.content || '', ...) is called after every
\* answered observation or summarize query
ProcessAfterResponse(content) == TRUE

\* one attempt answered 200: parseGeminiResponse, then the code after the
\* await of queryGeminiMultiTurn up to the next await
FetchOk ==
    /\ pc \in QueryPcs
    /\ qpc = "fetch"
    /\ qRequests' = qRequests + 1
    /\ qpc' = "none"
    /\ consec429' = 0
    /\ \E r \in GeminiResponses :
        LET content == parseGeminiResponse(r).content
            turns == TurnsAfterResponse(pc, content, cur.id)
        IN
        /\ history' = history \o turns
        /\ pushed' = pushed \o turns
        /\ IF pc = "init_query"
           THEN /\ memorySessionId' = (memorySessionId \/ EnsureMemorySessionId(content))
                /\ pc' = IF content = "full" THEN "init_process" ELSE "loop"
                /\ UNCHANGED processed
           ELSE /\ UNCHANGED memorySessionId
                /\ IF ProcessAfterResponse(content)
                   THEN /\ pc' = IF pc = "obs_query" THEN "obs_process"
                                                     ELSE "sum_process"
                        /\ processed' = Append(processed,
                              [id |-> cur.id, type |-> cur.type, text |-> content,
                               tokens |-> tokensUsedOf(parseGeminiResponse(r)),
                               prompt_number |-> lastPromptNumber,
                               done |-> FALSE])
                   ELSE /\ pc' = "loop"
                        /\ UNCHANGED processed
    /\ UNCHANGED <<lastFail, cfg, attempt, queue, nextId, cur, inFlight,
                   lastPromptNumber, err, abortSignal, fallbackCalls,
                   fallbackHistory>>
    /\ UNCHANGED abortAt
    /\ UNCHANGED notAgentVars

\* one attempt failed: retried after a wait, or thrown to startSession
FetchFail ==
    /\ pc \in QueryPcs
    /\ qpc = "fetch"
    /\ qRequests' = qRequests + 1
    /\ \E e \in FetchFailures :
        /\ lastFail' = e
        /\ consec429' = IF e.kind = "http" /\ e.status = 429
                        THEN consec429 + 1 ELSE 0
        /\ IF RetryDecision(e, attempt, maxAttempts)
           THEN /\ qpc' = "backoff"
                /\ UNCHANGED <<pc, err>>
           ELSE /\ qpc' = "none"
                /\ err' = e
                /\ pc' = "catch"
    /\ UNCHANGED <<cfg, attempt, queue, nextId, cur, inFlight, history,
                   memorySessionId, lastPromptNumber, processed, abortSignal,
                   fallbackCalls, fallbackHistory>>
    /\ UNCHANGED <<pushed, abortAt>>
    /\ UNCHANGED notAgentVars

\* the backoff wait is over: next attempt
BackoffDone ==
    /\ pc \in QueryPcs
    /\ qpc = "backoff"
    /\ attempt' = attempt + 1
    /\ qpc' = "fetch"
    /\ lastFail' = NoErr
    /\ UNCHANGED <<cfg, pc, consec429, queue, nextId, cur, inFlight,
                   history, memorySessionId, lastPromptNumber, processed, err,
                   abortSignal, fallbackCalls, fallbackHistory>>
    /\ abortAt' = AfterSend(abortAt)
    /\ UNCHANGED <<pushed, qRequests>>
    /\ UNCHANGED notAgentVars

\* a loop body that does not await processAgentResponse
ClaimGuardNoAwait == pc \in {"loop", "obs_process", "sum_process"}

\* when the loop head may ask the iterator for the next message
ClaimGuard == pc = "loop"

\* a claim that takes the newest pending message
ClaimNewest(q) == [msg |-> q[Len(q)], rest |-> SubSeq(q, 1, Len(q) - 1)]

\* claimAndDeleteNext of the pending-message store: oldest message, removed
ClaimAndDelete(q) == [msg |-> Head(q), rest |-> Tail(q)]

\* the awaited processAgentResponse call has completed
ProcessDone ==
    /\ pc \in ProcessPcs
    /\ pc' = "loop"
    /\ IF pc = "init_process"
       THEN UNCHANGED <<processed, inFlight, cur>>
       ELSE /\ processed' = [processed EXCEPT ![Len(processed)].done = TRUE]
            /\ inFlight' = inFlight \ {cur.id}
            /\ cur' = NoMsg
    /\ UNCHANGED <<lastFail, cfg, qpc, attempt, consec429, queue, nextId,
                   history, memorySessionId, lastPromptNumber, err,
                   abortSignal, fallbackCalls, fallbackHistory>>
    /\ UNCHANGED <<pushed, qRequests, abortAt>>
    /\ UNCHANGED notAgentVars

\* a loop that never updates session.lastPromptNumber
PromptNumberKept(msg, last) == last

\* if (message.type === 'observation' && message.prompt_number !== undefined)
\*     session.lastPromptNumber = message.prompt_number
PromptNumberAfter(msg, last) ==
    IF msg.type = "observation" /\ msg.prompt_number # 0
    THEN msg.prompt_number ELSE last

\* the loop head: the iterator yields the next message and the body runs up
\* to its await of queryGeminiMultiTurn
IteratorNext ==
    /\ ClaimGuard
    /\ ~abortSignal
    /\ queue # <<>>
    /\ LET c == ClaimAndDelete(queue) IN
        /\ queue' = c.rest
        /\ cur' = c.msg
        /\ inFlight' = inFlight \cup {c.msg.id}
        /\ lastPromptNumber' = PromptNumberAfter(c.msg, lastPromptNumber)
        /\ history' = HistoryAfterTruncate(
                          Append(history, [role |-> "user", ref |-> c.msg.id]))
        /\ pushed' = Append(pushed, [role |-> "user", ref |-> c.msg.id])
        /\ pc' = IF c.msg.type = "observation" THEN "obs_query" ELSE "sum_query"
    /\ qpc' = "ratelimit"
    /\ qRequests' = 0
    /\ attempt' = 0
    /\ consec429' = 0
    /\ UNCHANGED <<lastFail, cfg, nextId, memorySessionId, processed, err,
                   abortSignal, fallbackCalls, fallbackHistory>>
    /\ UNCHANGED <<abortAt>>
    /\ UNCHANGED notAgentVars

\* the iterator ends: nothing pending, or the abort signal was observed
IteratorEnd ==
    /\ pc = "loop"
    /\ abortSignal \/ queue = <<>>
    /\ pc' = "completed"
    /\ UNCHANGED <<lastFail, cfg, qpc, attempt, consec429, queue, nextId, cur,
                   inFlight, history, memorySessionId, lastPromptNumber,
                   processed, err, abortSignal, fallbackCalls, fallbackHistory>>
    /\ UNCHANGED <<pushed, qRequests, abortAt>>
    /\ UNCHANGED notAgentVars

\* an awaited collaborator rejects with an abort error once the signal is set
AbortThrown ==
    /\ pc \in {"loop"} \cup ProcessPcs
    /\ abortSignal
    /\ err' = AbortError
    /\ pc' = "catch"
    /\ UNCHANGED <<lastFail, cfg, qpc, attempt, consec429, queue, nextId, cur,
                   inFlight, history, memorySessionId, lastPromptNumber,
                   processed, abortSignal, fallbackCalls, fallbackHistory>>
    /\ UNCHANGED <<pushed, qRequests, abortAt>>
    /\ UNCHANGED notAgentVars

\* a catch block that calls the fallback agent and resumes the Gemini loop
PcAfterCatchResume(outcome) == IF outcome = "fallback" THEN "loop" ELSE outcome

\* where startSession is after its catch block: it returns the fallback
\* agent's startSession promise, or rethrows; either way the run is over
PcAfterCatch(outcome) == outcome

\* the catch block of startSession
Catch ==
    /\ pc = "catch"
    /\ pc' = PcAfterCatch(CatchOutcome(err))
    /\ IF CatchOutcome(err) = "fallback"
       THEN /\ fallbackCalls' = fallbackCalls + 1
            /\ fallbackHistory' = history
       ELSE UNCHANGED <<fallbackCalls, fallbackHistory>>
    /\ UNCHANGED <<lastFail, cfg, qpc, attempt, consec429, queue, nextId, cur,
                   inFlight, history, memorySessionId, lastPromptNumber,
                   processed, err, abortSignal>>
    /\ UNCHANGED <<pushed, qRequests, abortAt>>
    /\ UNCHANGED notAgentVars

AgentNext ==
    \/ Enqueue
    \/ Abort
    \/ StartSession
    \/ RateLimitDone
    \/ FetchOk
    \/ FetchFail
    \/ BackoffDone
    \/ ProcessDone
    \/ IteratorNext
    \/ IteratorEnd
    \/ AbortThrown
    \/ Catch

----------------------------------------------------------------------------
(* GeminiAgent.truncateHistory *)

\* lengths (in characters) of the turns' contents
ContentLengths == {0, 1, 4, 5, 9}

\* estimateTokens: Math.ceil(text.length / CHARS_PER_TOKEN_ESTIMATE)
estimateTokens(chars) ==
    (chars + CHARS_PER_TOKEN_ESTIMATE - 1) \div CHARS_PER_TOKEN_ESTIMATE

\* history.reduce((sum, m) => sum + estimateTokens(m.content), 0)
RECURSIVE totalTokens(_)
totalTokens(h) ==
    IF h = <<>> THEN 0 ELSE estimateTokens(Head(h).chars) + totalTokens(Tail(h))

\* parseInt(setting) || DEFAULT : 0 stands for unset, "0" or not a number
MAX_CONTEXT_MESSAGES(setting) ==
    IF setting = 0 THEN DEFAULT_GEMINI_MAX_CONTEXT_MESSAGES ELSE setting
MAX_ESTIMATED_TOKENS(setting) ==
    IF setting = 0 THEN DEFAULT_GEMINI_MAX_ESTIMATED_TOKENS ELSE setting

\* the sliding-window loop, entered at index i with the turns kept so far
RECURSIVE SlidingWindow(_, _, _, _, _, _)
SlidingWindow(h, i, truncated, tokenCount, maxMessages, maxTokens) ==
    IF i = 0 THEN truncated
    ELSE LET msgTokens == estimateTokens(h[i].chars) IN
         IF Len(truncated) >= maxMessages \/ tokenCount + msgTokens > maxTokens
         THEN truncated
         ELSE SlidingWindow(h, i - 1, <<h[i]>> \o truncated,
                            tokenCount + msgTokens, maxMessages, maxTokens)

\* the loop with its message test off by one
RECURSIVE SlidingWindowOffByOne(_, _, _, _, _, _)
SlidingWindowOffByOne(h, i, truncated, tokenCount, maxMessages, maxTokens) ==
    IF i = 0 THEN truncated
    ELSE LET msgTokens == estimateTokens(h[i].chars) IN
         IF Len(truncated) > maxMessages \/ tokenCount + msgTokens > maxTokens
         THEN truncated
         ELSE SlidingWindowOffByOne(h, i - 1, <<h[i]>> \o truncated,
                            tokenCount + msgTokens, maxMessages, maxTokens)

truncateHistoryOffByOne(h, maxMessages, maxTokens) ==
    IF Len(h) <= maxMessages /\ totalTokens(h) <= maxTokens
    THEN h
    ELSE SlidingWindowOffByOne(h, Len(h), <<>>, 0, maxMessages, maxTokens)

truncateHistory(h, maxMessages, maxTokens) ==
    IF Len(h) <= maxMessages /\ totalTokens(h) <= maxTokens
    THEN h
    ELSE SlidingWindow(h, Len(h), <<>>, 0, maxMessages, maxTokens)

\* histories whose turn i is turn number i, of any of the content lengths
Histories ==
    UNION {[1..n -> ContentLengths] : n \in 0..MaxHistLen}
TurnsOf(f) == [i \in DOMAIN f |-> [turn |-> i, chars |-> f[i]]]

TruncIdle ==
    /\ tHistory = <<>>
    /\ tSettings = [messages |-> 0, tokens |-> 0]
    /\ tResult = <<>>
    /\ tPc = "idle"

TruncInit ==
    /\ \E f \in Histories : tHistory = TurnsOf(f)
    /\ tSettings \in [messages : 0..MaxCfgMessages, tokens : 0..MaxCfgTokens]
    /\ tResult = <<>>
    /\ tPc = "input"

\* queryGeminiMultiTurn calls truncateHistory(history)
Truncate ==
    /\ tPc = "input"
    /\ tResult' = truncateHistory(tHistory,
                      MAX_CONTEXT_MESSAGES(tSettings.messages),
                      MAX_ESTIMATED_TOKENS(tSettings.tokens))
    /\ tPc' = "done"
    /\ UNCHANGED <<tHistory, tSettings>>
    /\ UNCHANGED notTruncVars

----------------------------------------------------------------------------
(* enforceRateLimitForModel and the requests of queryGeminiMultiTurn *)

Callers == {"s1", "s2"}

GeminiModels == {"gemini-2.5-flash-lite", "gemini-2.5-flash", "gemini-2.5-pro",
                 "gemini-2.0-flash", "gemini-2.0-flash-lite",
                 "gemini-2.0-flash-exp", "gemini-3-flash-preview",
                 "gemini-3-pro-preview"}

GEMINI_RPM_LIMITS(model) ==
    CASE model = "gemini-2.5-flash-lite" -> 10
      [] model = "gemini-2.5-flash" -> 10
      [] model = "gemini-2.5-pro" -> 5
      [] model = "gemini-2.0-flash" -> 15
      [] model = "gemini-2.0-flash-lite" -> 30
      [] model = "gemini-2.0-flash-exp" -> 10
      [] model = "gemini-3-flash-preview" -> 5
      [] model = "gemini-3-pro-preview" -> 2

CeilDiv(a, b) == (a + b - 1) \div b
Min(a, b) == IF a <= b THEN a ELSE b

\* Math.ceil(60000 / rpm) + 100
minimumDelayMs(model) == CeilDiv(60000, GEMINI_RPM_LIMITS(model)) + 100

RECURSIVE Pow2(_)
Pow2(n) == IF n = 0 THEN 1 ELSE 2 * Pow2(n - 1)

\* Math.random() * 0.1, in thousandths
Jitters == {0, 50, 99}

\* exponentialDelay + jitter without the Math.min
BackoffUncapped(att, baseDelayMs, r) ==
    LET exponentialDelay == baseDelayMs * Pow2(att)
    IN exponentialDelay * 1000 + exponentialDelay * (100 + r)

\* calculateBackoffDelay in thousandths of a millisecond, with
\* jitter = exponentialDelay * (0.1 + r / 1000)
BackoffThousandths(att, baseDelayMs, r) ==
    LET exponentialDelay == baseDelayMs * Pow2(att)
        jitter == exponentialDelay * (100 + r)
    IN Min(exponentialDelay * 1000 + jitter, 60000 * 1000)

\* calculateBackoffDelay in whole milliseconds
calculateBackoffDelay(att, baseDelayMs, r) ==
    BackoffThousandths(att, baseDelayMs, r) \div 1000

\* RetryInfo.retryDelay of an error body; "none": the body carries none
NoRetryInfo == "none"
RetryDelayTexts ==
    {NoRetryInfo, "0s", "0.5s", "2s", "2.007s", "1.005s", "2.083535778s", "500ms"}
\* the bodies the concurrent callers of the rate model receive
RetryDelays == {NoRetryInfo, "0.5s"}

\* retryDelay.match(/^([\d.]+)s$/)
MatchesSeconds(text) ==
    text \in {"0s", "0.5s", "2s", "2.007s", "1.005s", "2.083535778s"}

NanosPerMs == 1000000

\* the duration a text denotes, in nanoseconds
ExactNanos(text) ==
    CASE text = "0s" -> 0
      [] text = "0.5s" -> 500000000
      [] text = "2s" -> 2000000000
      [] text = "2.007s" -> 2007000000
      [] text = "1.005s" -> 1005000000
      [] text = "2.083535778s" -> 2083535778
      [] text = "500ms" -> 500000000
      [] OTHER -> 0

\* parseFloat(match[1]) * 1000 is computed in IEEE-754 doubles: 1 when the
\* product is above the exact value (2.007 * 1000 = 2007.0000000000002), -1
\* when it is below (1.005 * 1000 = 1004.9999999999999), 0 when it is exact
ProductError(text) ==
    CASE text = "2.007s" -> 1
      [] text \in {"1.005s", "2.083535778s"} -> -1
      [] OTHER -> 0

\* Math.ceil(parseFloat(match[1]) * 1000)
CeilMillis(text) ==
    LET ns == ExactNanos(text) IN
    IF ns % NanosPerMs = 0
    THEN ns \div NanosPerMs + (IF ProductError(text) > 0 THEN 1 ELSE 0)
    ELSE ns \div NanosPerMs + 1

\* extractGeminiRetryDelay: Math.ceil(seconds * 1000) + 1000, or null (-1)
extractGeminiRetryDelay(text) ==
    IF text # NoRetryInfo /\ MatchesSeconds(text)
    THEN CeilMillis(text) + 1000
    ELSE -1

\* a retry that always waits the exponential backoff
RetryDelayBackoffOnly(text, att, baseDelayMs, r) ==
    calculateBackoffDelay(att, baseDelayMs, r)

\* geminiDelay ?? calculateBackoffDelay(attempt, baseDelayMs)
RetryDelayFor(text, att, baseDelayMs, r) ==
    LET geminiDelay == extractGeminiRetryDelay(text)
    IN  IF geminiDelay >= 0 THEN geminiDelay
        ELSE calculateBackoffDelay(att, baseDelayMs, r)

RateIdle ==
    /\ now = 0
    /\ lastRequestTime = 0
    /\ rCfg = [model |-> "gemini-2.5-flash", rateLimitingEnabled |-> FALSE]
    /\ rpc = [c \in Callers |-> "off"]
    /\ wakeAt = [c \in Callers |-> 0]
    /\ rAttempt = [c \in Callers |-> 0]
    /\ lastSent = -1
    /\ sentCount = 0
    /\ minGap = -1

RateInit ==
    /\ now = StartMs
    /\ lastRequestTime = 0
    /\ rCfg \in [model : GeminiModels, rateLimitingEnabled : BOOLEAN]
    /\ rpc = [c \in Callers |-> "idle"]
    /\ wakeAt = [c \in Callers |-> 0]
    /\ rAttempt = [c \in Callers |-> 0]
    /\ lastSent = -1
    /\ sentCount = 0
    /\ minGap = -1

\* fetch(url, ...) is called at time now
SendRequest ==
    /\ lastSent' = now
    /\ sentCount' = sentCount + 1
    /\ minGap' = LET gap == Min(now - lastSent, minimumDelayMs(rCfg.model))
                 IN IF lastSent < 0 THEN minGap
                    ELSE IF minGap < 0 THEN gap
                    ELSE Min(minGap, gap)

\* queryGeminiMultiTurn enters enforceRateLimitForModel: it returns at once
\* (rate limiting disabled, or enough time since lastRequestTime) and the
\* first attempt is sent, or it starts its setTimeout
EnforceRateLimit(c) ==
    /\ rpc[c] = "idle"
    /\ sentCount < MaxRequests
    /\ rAttempt' = [rAttempt EXCEPT ![c] = 0]
    /\ LET timeSinceLastRequest == now - lastRequestTime
           minimum == minimumDelayMs(rCfg.model)
       IN IF ~rCfg.rateLimitingEnabled
          THEN /\ SendRequest
               /\ rpc' = [rpc EXCEPT ![c] = "inflight"]
               /\ UNCHANGED <<lastRequestTime, wakeAt>>
          ELSE IF timeSinceLastRequest < minimum
          THEN /\ wakeAt' = [wakeAt EXCEPT ![c] = now + (minimum - timeSinceLastRequest)]
               /\ rpc' = [rpc EXCEPT ![c] = "rl_wait"]
               /\ UNCHANGED <<lastRequestTime, lastSent, sentCount, minGap>>
          ELSE /\ lastRequestTime' = now
               /\ SendRequest
               /\ rpc' = [rpc EXCEPT ![c] = "inflight"]
               /\ UNCHANGED wakeAt
    /\ UNCHANGED <<now, rCfg>>
    /\ UNCHANGED notRateVars

\* the rate-limit setTimeout fires: lastRequestTime = Date.now(), first attempt
RateLimitWake(c) ==
    /\ rpc[c] = "rl_wait"
    /\ now >= wakeAt[c]
    /\ lastRequestTime' = now
    /\ SendRequest
    /\ rpc' = [rpc EXCEPT ![c] = "inflight"]
    /\ UNCHANGED <<now, rCfg, wakeAt, rAttempt>>
    /\ UNCHANGED notRateVars

\* the attempt is answered: success or an error that is not retried ends the
\* call; a 429 with attempts left starts the backoff setTimeout
Answer(c) ==
    /\ rpc[c] = "inflight"
    /\ \/ /\ rpc' = [rpc EXCEPT ![c] = "idle"]
          /\ UNCHANGED wakeAt
       \/ /\ rAttempt[c] < DEFAULT_RETRY_MAX_ATTEMPTS - 1
          /\ \E d \in RetryDelays, r \in Jitters :
               LET delay == RetryDelayFor(d, rAttempt[c],
                                          DEFAULT_RETRY_BASE_DELAY_MS, r)
               IN wakeAt' = [wakeAt EXCEPT ![c] = now + delay]
          /\ rpc' = [rpc EXCEPT ![c] = "backoff"]
    /\ UNCHANGED <<now, lastRequestTime, rCfg, rAttempt, lastSent, sentCount, minGap>>
    /\ UNCHANGED notRateVars

\* the backoff setTimeout fires: the retry loop sends the next attempt
BackoffWake(c) ==
    /\ rpc[c] = "backoff"
    /\ now >= wakeAt[c]
    /\ sentCount < MaxRequests
    /\ rAttempt' = [rAttempt EXCEPT ![c] = rAttempt[c] + 1]
    /\ SendRequest
    /\ rpc' = [rpc EXCEPT ![c] = "inflight"]
    /\ UNCHANGED <<now, lastRequestTime, rCfg, wakeAt>>
    /\ UNCHANGED notRateVars

\* callers inside a setTimeout
Sleeping == {c \in Callers : rpc[c] \in {"rl_wait", "backoff"}}

\* time passes, by TickMs or up to the next due timer; a due timer fires
\* before time passes further
Tick ==
    /\ \A c \in Sleeping : wakeAt[c] > now
    /\ \E t \in {wakeAt[c] : c \in Sleeping} \cup {now + TickMs} :
         /\ \A c \in Sleeping : t <= wakeAt[c]
         /\ t <= StartMs + MaxElapsedMs
         /\ now' = t
    /\ UNCHANGED <<lastRequestTime, rCfg, rpc, wakeAt, rAttempt, lastSent,
                   sentCount, minGap>>
    /\ UNCHANGED notRateVars

RateNext ==
    \/ \E c \in Callers : EnforceRateLimit(c)
    \/ \E c \in Callers : RateLimitWake(c)
    \/ \E c \in Callers : Answer(c)
    \/ \E c \in Callers : BackoffWake(c)
    \/ Tick

----------------------------------------------------------------------------
(* SpawnLock: acquireSpawnLock and releaseSpawnLock, one file step per action *)

\* the processes that call acquireSpawnLock; both stay alive
Procs == {"p1", "p2"}
\* the pid of a process that has exited
DeadPid == "dead"

NoFile == [exists |-> FALSE, corrupt |-> FALSE, pid |-> "none", timestamp |-> 0]
NoInfo == [pid |-> "none", timestamp |-> 0]

\* isProcessRunning: process.kill(pid, 0) succeeds
isProcessRunning(pid) == pid \in Procs

\* a staleness test that looks at the age only
IsStaleByAge(info) == lockNow - info.timestamp > LOCK_STALE_THRESHOLD_MS

\* the staleness test of acquireSpawnLock
IsStale(info) ==
    \/ lockNow - info.timestamp > LOCK_STALE_THRESHOLD_MS
    \/ ~isProcessRunning(info.pid)

\* the lock file is one a crashed holder left: corrupted, older than the
\* threshold, or recording a process that is gone
StaleOrCorrupt ==
    /\ lockFile.exists
    /\ \/ lockFile.corrupt
       \/ lockNow - lockFile.timestamp > LOCK_STALE_THRESHOLD_MS
       \/ lockFile.pid = DeadPid

\* lCall after a step of p: "start" begins an acquireSpawnLock call,
\* "release" begins releaseSpawnLock; a step of p disturbs every other call
CallAfter(p, kind) ==
    [x \in Procs |->
        IF x # p THEN "none"
        ELSE IF kind = "start"
             THEN (IF StaleOrCorrupt THEN "stale_alone" ELSE "none")
             ELSE IF kind = "release" THEN "none" ELSE lCall[p]]

LockIdle ==
    /\ lockFile = NoFile
    /\ lockNow = 0
    /\ lpc = [p \in Procs |-> "off"]
    /\ lockInfo = [p \in Procs |-> NoInfo]
    /\ holds = [p \in Procs |-> FALSE]
    /\ lCall = [p \in Procs |-> "none"]

\* no lock file, a lock left by a process that died, or a corrupted file
LockInit ==
    /\ lockFile \in {NoFile,
                     [exists |-> TRUE, corrupt |-> FALSE, pid |-> DeadPid, timestamp |-> 0],
                     [exists |-> TRUE, corrupt |-> TRUE, pid |-> "none", timestamp |-> 0]}
    /\ lockNow = 0
    /\ lpc = [p \in Procs |-> "idle"]
    /\ lockInfo = [p \in Procs |-> NoInfo]
    /\ holds = [p \in Procs |-> FALSE]
    /\ lCall = [p \in Procs |-> "none"]

\* acquireSpawnLock: existsSync(SPAWN_LOCK_FILE)
AcquireExists(p) ==
    /\ lpc[p] = "idle"
    /\ ~holds[p]
    /\ lpc' = [lpc EXCEPT ![p] = IF lockFile.exists THEN "read" ELSE "write"]
    /\ UNCHANGED <<lockFile, lockNow, lockInfo, holds>>
    /\ lCall' = CallAfter(p, "start")
    /\ UNCHANGED notLockVars

\* readFileSync + JSON.parse + the staleness test: a valid lock makes the
\* call return false, a stale one goes on to unlink it, a missing or
\* corrupted file goes to the catch block
AcquireRead(p) ==
    /\ lpc[p] = "read"
    /\ IF ~lockFile.exists \/ lockFile.corrupt
       THEN /\ lpc' = [lpc EXCEPT ![p] = "catch_unlink"]
            /\ UNCHANGED lockInfo
       ELSE LET info == [pid |-> lockFile.pid, timestamp |-> lockFile.timestamp] IN
            /\ lockInfo' = [lockInfo EXCEPT ![p] = info]
            /\ lpc' = [lpc EXCEPT ![p] = IF IsStale(info) THEN "unlink" ELSE "idle"]
    /\ UNCHANGED <<lockFile, lockNow, holds>>
    /\ lCall' = CallAfter(p, "step")
    /\ UNCHANGED notLockVars

\* unlinkSync of the stale lock; ENOENT goes to the catch block
AcquireUnlink(p) ==
    /\ lpc[p] = "unlink"
    /\ IF lockFile.exists
       THEN /\ lockFile' = NoFile
            /\ lpc' = [lpc EXCEPT ![p] = "write"]
       ELSE /\ lpc' = [lpc EXCEPT ![p] = "catch_unlink"]
            /\ UNCHANGED lockFile
    /\ UNCHANGED <<lockNow, lockInfo, holds>>
    /\ lCall' = CallAfter(p, "step")
    /\ UNCHANGED notLockVars

\* the catch block: try { unlinkSync } catch { ignore }
AcquireCatchUnlink(p) ==
    /\ lpc[p] = "catch_unlink"
    /\ lockFile' = NoFile
    /\ lpc' = [lpc EXCEPT ![p] = "write"]
    /\ UNCHANGED <<lockNow, lockInfo, holds>>
    /\ lCall' = CallAfter(p, "step")
    /\ UNCHANGED notLockVars

\* writeFileSync(..., { flag: 'wx' }): exclusive create, or EEXIST -> false
AcquireWrite(p) ==
    /\ lpc[p] = "write"
    /\ IF lockFile.exists
       THEN /\ lpc' = [lpc EXCEPT ![p] = "idle"]
            /\ UNCHANGED <<lockFile, holds>>
       ELSE /\ lockFile' = [exists |-> TRUE, corrupt |-> FALSE, pid |-> p,
                            timestamp |-> lockNow]
            /\ holds' = [holds EXCEPT ![p] = TRUE]
            /\ lpc' = [lpc EXCEPT ![p] = "holding"]
    /\ UNCHANGED <<lockNow, lockInfo>>
    /\ lCall' = CallAfter(p, "step")
    /\ UNCHANGED notLockVars

\* releaseSpawnLock: existsSync
ReleaseExists(p) ==
    /\ lpc[p] = "holding"
    /\ holds' = [holds EXCEPT ![p] = FALSE]
    /\ lpc' = [lpc EXCEPT ![p] = IF lockFile.exists THEN "rel_read" ELSE "idle"]
    /\ UNCHANGED <<lockFile, lockNow, lockInfo>>
    /\ lCall' = CallAfter(p, "release")
    /\ UNCHANGED notLockVars

\* releaseSpawnLock: readFileSync + JSON.parse + the ownership test
ReleaseRead(p) ==
    /\ lpc[p] = "rel_read"
    /\ IF ~lockFile.exists \/ lockFile.corrupt
       THEN /\ lpc' = [lpc EXCEPT ![p] = "idle"]
            /\ UNCHANGED lockInfo
       ELSE /\ lockInfo' = [lockInfo EXCEPT ![p] =
                              [pid |-> lockFile.pid, timestamp |-> lockFile.timestamp]]
            /\ lpc' = [lpc EXCEPT ![p] = IF lockFile.pid = p THEN "rel_unlink" ELSE "idle"]
    /\ UNCHANGED <<lockFile, lockNow, holds>>
    /\ lCall' = CallAfter(p, "step")
    /\ UNCHANGED notLockVars

\* releaseSpawnLock: unlinkSync (an error is caught and logged)
ReleaseUnlink(p) ==
    /\ lpc[p] = "rel_unlink"
    /\ lockFile' = NoFile
    /\ lpc' = [lpc EXCEPT ![p] = "idle"]
    /\ UNCHANGED <<lockNow, lockInfo, holds>>
    /\ lCall' = CallAfter(p, "step")
    /\ UNCHANGED notLockVars

\* time passes
LockTick ==
    /\ lockNow + LockTickMs <= MaxLockMs
    /\ lockNow' = lockNow + LockTickMs
    /\ UNCHANGED <<lockFile, lpc, lockInfo, holds>>
    /\ UNCHANGED lCall
    /\ UNCHANGED notLockVars

LockNext ==
    \/ \E p \in Procs : AcquireExists(p)
    \/ \E p \in Procs : AcquireRead(p)
    \/ \E p \in Procs : AcquireUnlink(p)
    \/ \E p \in Procs : AcquireCatchUnlink(p)
    \/ \E p \in Procs : AcquireWrite(p)
    \/ \E p \in Procs : ReleaseExists(p)
    \/ \E p \in Procs : ReleaseRead(p)
    \/ \E p \in Procs : ReleaseUnlink(p)
    \/ LockTick

----------------------------------------------------------------------------
(* PendingMessageStore, SessionOrchestrator (triggerProcessing) and the     *)
(* session_summaries table                                                  *)

Sessions == {"a", "b"}
MsgIds == 1..MaxStoreMsgs
NoStoreMsg == [id |-> 0, session |-> "none", type |-> "none"]

\* positions in q of the pending messages of session sid
PendingOf(q, sid) == {i \in 1..Len(q) : q[i].session = sid}

MinOf(S) == CHOOSE x \in S : \A y \in S : x <= y

RemoveAt(q, i) == SubSeq(q, 1, i - 1) \o SubSeq(q, i + 1, Len(q))

\* a claim that selects the oldest pending message and does not delete it
ClaimWithoutDelete(q, sid) ==
    IF PendingOf(q, sid) = {}
    THEN [msg |-> NoStoreMsg, rest |-> q]
    ELSE [msg |-> q[MinOf(PendingOf(q, sid))], rest |-> q]

\* claimAndDeleteNext(sessionId): one transaction that selects the oldest
\* pending message of the session and removes it; "empty" when none remain
ClaimAndDeleteNext(q, sid) ==
    IF PendingOf(q, sid) = {}
    THEN [msg |-> NoStoreMsg, rest |-> q]
    ELSE LET i == MinOf(PendingOf(q, sid)) IN
         [msg |-> q[i], rest |-> RemoveAt(q, i)]

\* an insert into a table without the UNIQUE constraint
StoreSummaryNoUnique(rows, msid) == Append(rows, msid)

\* insert into session_summaries, memory_session_id UNIQUE: a second row
\* for the same memory_session_id is rejected
StoreSummary(rows, msid) ==
    IF \E i \in 1..Len(rows) : rows[i] = msid THEN rows ELSE Append(rows, msid)

\* the sessions' memory_session_id
MemorySessionIdOf(sid) == sid

StoreIdle ==
    /\ sQueue = <<>>
    /\ sNextId = 0
    /\ claimCount = [i \in MsgIds |-> 0]
    /\ active = {}
    /\ running = [x \in Sessions |-> 0]
    /\ loopMsg = [x \in Sessions |-> NoStoreMsg]
    /\ extMsg = NoStoreMsg
    /\ lastReport = [started |-> {}, skipped |-> {}]
    /\ summaries = <<>>
    /\ sumAttempts = [x \in Sessions |-> 0]

StoreInit ==
    /\ sQueue = <<>>
    /\ sNextId = 1
    /\ claimCount = [i \in MsgIds |-> 0]
    /\ active = {}
    /\ running = [x \in Sessions |-> 0]
    /\ loopMsg = [x \in Sessions |-> NoStoreMsg]
    /\ extMsg = NoStoreMsg
    /\ lastReport = [started |-> {}, skipped |-> {}]
    /\ summaries = <<>>
    /\ sumAttempts = [x \in Sessions |-> 0]

\* enqueue(sessionRef, type, payload)
StoreEnqueue(sid, type) ==
    /\ sNextId <= MaxStoreMsgs
    /\ sQueue' = Append(sQueue, [id |-> sNextId, session |-> sid, type |-> type])
    /\ sNextId' = sNextId + 1
    /\ UNCHANGED <<claimCount, active, running, loopMsg, extMsg, lastReport,
                   summaries, sumAttempts>>
    /\ UNCHANGED notStoreVars

\* sessions with pending work
SessionsWithWork == {x \in Sessions : PendingOf(sQueue, x) # {}}

\* the sets of at most limit sessions with pending work a trigger may take
Chosen(limit) ==
    {c \in SUBSET SessionsWithWork :
        Cardinality(c) = IF Cardinality(SessionsWithWork) < limit
                         THEN Cardinality(SessionsWithWork) ELSE limit}

\* a trigger that starts a loop for every chosen session
TriggerProcessingNoActiveCheck(limit) ==
    /\ \E chosen \in Chosen(limit) :
        /\ chosen # {}
        /\ active' = active \cup chosen
        /\ running' = [x \in Sessions |->
                         IF x \in chosen THEN running[x] + 1 ELSE running[x]]
        /\ lastReport' = [started |-> chosen, skipped |-> {}]
    /\ UNCHANGED <<sQueue, sNextId, claimCount, loopMsg, extMsg, summaries,
                   sumAttempts>>
    /\ UNCHANGED notStoreVars

\* triggerProcessing(sessionLimit): start a drain loop for the chosen
\* sessions that are not Active, skip those that are, report both
TriggerProcessing(limit) ==
    /\ \E chosen \in Chosen(limit) :
        /\ chosen # {}
        /\ active' = active \cup chosen
        /\ running' = [x \in Sessions |->
                         IF x \in chosen \ active THEN running[x] + 1 ELSE running[x]]
        /\ lastReport' = [started |-> chosen \ active, skipped |-> chosen \cap active]
    /\ UNCHANGED <<sQueue, sNextId, claimCount, loopMsg, extMsg, summaries,
                   sumAttempts>>
    /\ UNCHANGED notStoreVars

\* the drain loop of session sid claims its next message
LoopClaim(sid) ==
    /\ sid \in active
    /\ running[sid] > 0
    /\ loopMsg[sid] = NoStoreMsg
    /\ LET c == ClaimAndDeleteNext(sQueue, sid) IN
        /\ c.msg # NoStoreMsg
        /\ sQueue' = c.rest
        /\ loopMsg' = [loopMsg EXCEPT ![sid] = c.msg]
        /\ claimCount' = [claimCount EXCEPT ![c.msg.id] = @ + 1]
    /\ UNCHANGED <<sNextId, active, running, extMsg, lastReport, summaries,
                   sumAttempts>>
    /\ UNCHANGED notStoreVars

\* the drain loop finds the queue empty for its session and ends
LoopEnd(sid) ==
    /\ sid \in active
    /\ running[sid] > 0
    /\ loopMsg[sid] = NoStoreMsg
    /\ ClaimAndDeleteNext(sQueue, sid).msg = NoStoreMsg
    /\ running' = [running EXCEPT ![sid] = @ - 1]
    /\ active' = IF running[sid] = 1 THEN active \ {sid} ELSE active
    /\ UNCHANGED <<sQueue, sNextId, claimCount, loopMsg, extMsg, lastReport,
                   summaries, sumAttempts>>
    /\ UNCHANGED notStoreVars

\* the response to the drain loop's message is persisted
LoopProcess(sid) ==
    /\ loopMsg[sid] # NoStoreMsg
    /\ loopMsg' = [loopMsg EXCEPT ![sid] = NoStoreMsg]
    /\ IF loopMsg[sid].type = "summarize"
       THEN /\ summaries' = StoreSummary(summaries, MemorySessionIdOf(sid))
            /\ sumAttempts' = [sumAttempts EXCEPT ![sid] = @ + 1]
       ELSE UNCHANGED <<summaries, sumAttempts>>
    /\ UNCHANGED <<sQueue, sNextId, claimCount, active, running, extMsg,
                   lastReport>>
    /\ UNCHANGED notStoreVars

\* a claimant outside the orchestrator's registry claims from session sid
ExtClaim(sid) ==
    /\ extMsg = NoStoreMsg
    /\ LET c == ClaimAndDeleteNext(sQueue, sid) IN
        /\ c.msg # NoStoreMsg
        /\ sQueue' = c.rest
        /\ extMsg' = c.msg
        /\ claimCount' = [claimCount EXCEPT ![c.msg.id] = @ + 1]
    /\ UNCHANGED <<sNextId, active, running, loopMsg, lastReport, summaries,
                   sumAttempts>>
    /\ UNCHANGED notStoreVars

\* the response to that claimant's message is persisted
ExtProcess ==
    /\ extMsg # NoStoreMsg
    /\ extMsg' = NoStoreMsg
    /\ IF extMsg.type = "summarize"
       THEN /\ summaries' = StoreSummary(summaries, MemorySessionIdOf(extMsg.session))
            /\ sumAttempts' = [sumAttempts EXCEPT ![extMsg.session] = @ + 1]
       ELSE UNCHANGED <<summaries, sumAttempts>>
    /\ UNCHANGED <<sQueue, sNextId, claimCount, active, running, loopMsg,
                   lastReport>>
    /\ UNCHANGED notStoreVars

StoreNext ==
    \/ \E sid \in Sessions, type \in {"observation", "summarize"} :
          StoreEnqueue(sid, type)
    \/ \E limit \in 1..Cardinality(Sessions) : TriggerProcessing(limit)
    \/ \E sid \in Sessions : LoopClaim(sid)
    \/ \E sid \in Sessions : LoopEnd(sid)
    \/ \E sid \in Sessions : LoopProcess(sid)
    \/ \E sid \in Sessions : ExtClaim(sid)
    \/ ExtProcess

----------------------------------------------------------------------------
(* PendingMessageQueue.recoverOnStartup and the status of queued messages   *)

RecIds == 1..MaxRecoverMsgs
Statuses == {"pending", "processing", "processed", "failed"}

\* a start-up that leaves the statuses as the crash left them
recoverWithoutReset(st) == st

\* recoverOnStartup: messages stuck in processing are reset to pending
recoverOnStartup(st) ==
    [i \in DOMAIN st |-> IF st[i] = "processing" THEN "pending" ELSE st[i]]

RecIdle ==
    /\ rStatus = [i \in RecIds |-> "idle"]
    /\ rBefore = [i \in RecIds |-> "idle"]
    /\ rPc = "off"

RecInit ==
    /\ rStatus = [i \in RecIds |-> "none"]
    /\ rBefore = [i \in RecIds |-> "none"]
    /\ rPc = "up"

\* enqueue inserts a row with status pending
RecEnqueue(i) ==
    /\ rPc \in {"up", "recovered"}
    /\ rStatus[i] = "none"
    /\ rStatus' = [rStatus EXCEPT ![i] = "pending"]
    /\ rBefore' = [j \in RecIds |-> "none"]
    /\ rPc' = "up"
    /\ UNCHANGED notRecVars

\* a claim marks a pending message as processing
RecClaim(i) ==
    /\ rPc \in {"up", "recovered"}
    /\ rStatus[i] = "pending"
    /\ rStatus' = [rStatus EXCEPT ![i] = "processing"]
    /\ rBefore' = [j \in RecIds |-> "none"]
    /\ rPc' = "up"
    /\ UNCHANGED notRecVars

\* the message's processing ends: processed, or failed after its retries
RecFinish(i) ==
    /\ rPc \in {"up", "recovered"}
    /\ rStatus[i] = "processing"
    /\ \E st \in {"processed", "failed"} :
          rStatus' = [rStatus EXCEPT ![i] = st]
    /\ rBefore' = [j \in RecIds |-> "none"]
    /\ rPc' = "up"
    /\ UNCHANGED notRecVars

\* the worker process dies; the table keeps what it held
RecCrash ==
    /\ rPc \in {"up", "recovered"}
    /\ rPc' = "down"
    /\ rBefore' = [j \in RecIds |-> "none"]
    /\ UNCHANGED rStatus
    /\ UNCHANGED notRecVars

\* worker start-up runs recoverOnStartup once
RecoverOnStartup ==
    /\ rPc = "down"
    /\ rBefore' = rStatus
    /\ rStatus' = recoverOnStartup(rStatus)
    /\ rPc' = "recovered"
    /\ UNCHANGED notRecVars

RecNext ==
    \/ \E i \in RecIds : RecEnqueue(i)
    \/ \E i \in RecIds : RecClaim(i)
    \/ \E i \in RecIds : RecFinish(i)
    \/ RecCrash
    \/ RecoverOnStartup

----------------------------------------------------------------------------
(* SearchManager.search: SQLite is the source of truth, ChromaDB the        *)
(* semantic index                                                           *)

ObservationTypes == {"bugfix", "decision"}
NoFilter == "any"
NoQuery == "none"
Queries == {NoQuery, "auth bug"}
TypeFilters == {NoFilter} \cup ObservationTypes
DocTypes == {"observation", "session_summary"}
NoDate == 0
DateStarts == {OldDay, Today}
Strategies == {"vector-first", "filter-only", "metadata-first"}
NoRequest == [query |-> NoQuery, type |-> NoFilter, dateStart |-> NoDate,
              up |-> TRUE, hits |-> {}]
NoResult == [kind |-> "none", rows |-> {}, strategy |-> "none"]

\* the records stored: an old bugfix observation, recent observations and a
\* recent session summary
RowShapes ==
    {[doc_type |-> "observation", type |-> "bugfix", created |-> OldDay],
     [doc_type |-> "observation", type |-> "decision", created |-> Today],
     [doc_type |-> "session_summary", type |-> "summary", created |-> Today]}

\* the metadata of the vector document of a relational row
DocOf(r) ==
    [sqlite_id |-> r.id, doc_type |-> r.doc_type, type |-> r.type,
     created_at_epoch |-> r.created]

\* the rows a filter and a date range select in the relational store
FilterRows(rs, type, dateStart) ==
    {r \in rs : (type = NoFilter \/ r.type = type) /\ r.created >= dateStart}

\* Step 2: meta.created_at_epoch > ninetyDaysAgo
RecencyFilter(hits) ==
    {d \in hits : d.created_at_epoch > Today - RECENCY_WINDOW_DAYS}

\* hydration that trusts the metadata of the vector documents
HydrateFromMetadata(rs, docs, docType) ==
    {[id |-> d.sqlite_id, doc_type |-> d.doc_type, type |-> d.type,
      created |-> d.created_at_epoch] : d \in {x \in docs : x.doc_type = docType}}

\* Steps 3 and 4: the ids of one document type, fetched from SQLite
\* (getObservationsByIds, getSessionSummariesByIds)
Hydrate(rs, docs, docType) ==
    LET ids == {d.sqlite_id : d \in {x \in docs : x.doc_type = docType}}
    IN  {r \in rs : r.doc_type = docType /\ r.id \in ids}

\* strategy selection that lets the query text decide first
StrategyAppliesQueryFirst(s, query, type) ==
    \/ s = "vector-first" /\ query # NoQuery
    \/ s = "filter-only" /\ query = NoQuery
    \/ s = "metadata-first" /\ type # NoFilter

\* Search Strategy Selection, row by row: free-text query present and no
\* exact filters; free-text query absent; exact filter present (type stands
\* for the exact concept/type/file filters), query text absent or secondary
StrategyApplies(s, query, type) ==
    \/ s = "vector-first" /\ query # NoQuery /\ type = NoFilter
    \/ s = "filter-only" /\ query = NoQuery
    \/ s = "metadata-first" /\ type # NoFilter

\* a search that answers an unreachable index with an empty result set
SearchSilentlyEmpty(query, type, dateStart, rs, up, hits) ==
    IF query = NoQuery
    THEN [kind |-> "ok", rows |-> FilterRows(rs, type, dateStart)]
    ELSE [kind |-> "ok",
          rows |-> IF up
                   THEN FilterRows(Hydrate(rs, RecencyFilter(hits), "observation")
                                   \cup Hydrate(rs, RecencyFilter(hits), "session_summary"),
                                   type, dateStart)
                   ELSE {}]

\* a search that applies the recency window on the SQLite path as well
SearchRecentOnly(query, type, dateStart, rs, up, hits) ==
    IF query = NoQuery
    THEN [kind |-> "ok",
          rows |-> {r \in FilterRows(rs, type, dateStart) :
                       r.created > Today - RECENCY_WINDOW_DAYS}]
    ELSE IF up
         THEN [kind |-> "ok",
               rows |-> FilterRows(Hydrate(rs, RecencyFilter(hits), "observation")
                                   \cup Hydrate(rs, RecencyFilter(hits), "session_summary"),
                                   type, dateStart)]
         ELSE [kind |-> "unavailable", rows |-> {}]

\* search(query?, filters): without query text the filters go to SQLite
\* directly; with query text ChromaDB is asked, its hits are filtered by
\* recency, categorized by document type and hydrated from SQLite, and an
\* unreachable ChromaDB gives an error of its own
Search(query, type, dateStart, rs, up, hits) ==
    IF query = NoQuery
    THEN [kind |-> "ok", rows |-> FilterRows(rs, type, dateStart)]
    ELSE IF up
         THEN LET recent == RecencyFilter(hits)
                  observations == Hydrate(rs, recent, "observation")
                  sessions == Hydrate(rs, recent, "session_summary")
              IN  [kind |-> "ok",
                   rows |-> FilterRows(observations \cup sessions, type, dateStart)]
         ELSE [kind |-> "unavailable", rows |-> {}]

\* a failed sync that rolls the relational commit back
RollbackOnSyncFailure(rs, id) == {r \in rs : r.id # id}

\* If sync fails: log warning, continue without vector search, data safe in
\* SQLite
OnSyncFailure(rs, id) == rs

\* a drain loop that awaits the sync before it claims the next message
ClaimAfterSync(sync) == \A i \in DOMAIN sync : sync[i] # "pending"

\* the sync is dispatched without await: the loop claims the next message
\* whatever the syncs are doing
ClaimReady(sync) == TRUE

SearchIdle ==
    /\ sRows = {}
    /\ sIndex = {}
    /\ sSync = [i \in 1..MaxRows |-> "none"]
    /\ chromaUp = FALSE
    /\ sReq = [query |-> "idle", type |-> NoFilter, dateStart |-> NoDate,
               up |-> FALSE, hits |-> {}]
    /\ sSnap = {}
    /\ sRes = NoResult

SearchInit ==
    /\ sRows = {}
    /\ sIndex = {}
    /\ sSync = [i \in 1..MaxRows |-> "none"]
    /\ chromaUp \in BOOLEAN
    /\ sReq = NoRequest
    /\ sSnap = {}
    /\ sRes = NoResult

\* the request served last is forgotten when the stores change
ForgetRequest ==
    /\ sReq' = NoRequest
    /\ sSnap' = {}
    /\ sRes' = NoResult

\* the next message is claimed and processed: its record is committed to
\* SQLite and the Chroma sync is dispatched without being awaited
StoreObservation(shape) ==
    /\ ClaimReady(sSync)
    /\ \E id \in 1..MaxRows :
          /\ sSync[id] = "none"
          /\ \A j \in 1..(id - 1) : sSync[j] # "none"
          /\ sRows' = sRows \cup {[id |-> id, doc_type |-> shape.doc_type,
                                   type |-> shape.type, created |-> shape.created]}
          /\ sSync' = [sSync EXCEPT ![id] = "pending"]
    /\ ForgetRequest
    /\ UNCHANGED <<sIndex, chromaUp>>
    /\ UNCHANGED notSearchVars

\* a dispatched sync completes: the record's document is in ChromaDB
SyncDone(id) ==
    /\ sSync[id] = "pending"
    /\ chromaUp
    /\ \E r \in sRows : r.id = id /\ sIndex' = sIndex \cup {DocOf(r)}
    /\ sSync' = [sSync EXCEPT ![id] = "done"]
    /\ ForgetRequest
    /\ UNCHANGED <<sRows, chromaUp>>
    /\ UNCHANGED notSearchVars

\* a dispatched sync fails: a warning is logged
SyncFail(id) ==
    /\ sSync[id] = "pending"
    /\ sRows' = OnSyncFailure(sRows, id)
    /\ sSync' = [sSync EXCEPT ![id] = "failed"]
    /\ ForgetRequest
    /\ UNCHANGED <<sIndex, chromaUp>>
    /\ UNCHANGED notSearchVars

\* manual cleanup: a row is deleted from SQLite by hand; its vector document
\* stays
DeleteRow(id) ==
    /\ \E r \in sRows : r.id = id /\ sRows' = sRows \ {r}
    /\ sSync[id] # "pending"
    /\ ForgetRequest
    /\ UNCHANGED <<sIndex, sSync, chromaUp>>
    /\ UNCHANGED notSearchVars

\* ChromaDB becomes unreachable, or reachable again
ChromaChange ==
    /\ chromaUp' = ~chromaUp
    /\ ForgetRequest
    /\ UNCHANGED <<sRows, sIndex, sSync>>
    /\ UNCHANGED notSearchVars

\* one search call; hits are the documents ChromaDB finds similar
SearchCall(query, type, dateStart) ==
    /\ \E hits \in (IF query # NoQuery /\ chromaUp THEN SUBSET sIndex ELSE {{}}),
          s \in Strategies :
          /\ StrategyApplies(s, query, type)
          /\ sRes' = [kind |-> Search(query, type, dateStart, sRows, chromaUp, hits).kind,
                      rows |-> Search(query, type, dateStart, sRows, chromaUp, hits).rows,
                      strategy |-> s]
          /\ sReq' = [query |-> query, type |-> type, dateStart |-> dateStart,
                      up |-> chromaUp,
                      hits |-> hits]
    /\ sSnap' = sRows
    /\ UNCHANGED <<sRows, sIndex, sSync, chromaUp>>
    /\ UNCHANGED notSearchVars

SearchNext ==
    \/ \E shape \in RowShapes : StoreObservation(shape)
    \/ \E id \in 1..MaxRows : SyncDone(id)
    \/ \E id \in 1..MaxRows : SyncFail(id)
    \/ \E id \in 1..MaxRows : DeleteRow(id)
    \/ ChromaChange
    \/ \E query \in Queries, type \in TypeFilters, dateStart \in DateStarts :
          SearchCall(query, type, dateStart)

----------------------------------------------------------------------------
(* worker-utils: the project filters; summarizeHandler.execute              *)

\* one entry of a comma-separated setting, before trim
Tokens == {"", "app", " lib "}
ProjectNames == {"app", "lib", "web"}
HttpStatuses == {200, 204, 400, 404, 500}
NoHookResult == [kind |-> "none", continue |-> FALSE, suppressOutput |-> FALSE]
StandardResult == [kind |-> "return", continue |-> TRUE, suppressOutput |-> TRUE]
Thrown == [kind |-> "throw", continue |-> FALSE, suppressOutput |-> FALSE]

\* the settings a file can hold: split(',') gives at least one entry
SettingLists == UNION {[1..n -> Tokens] : n \in 1..MaxTokens}
NameLists == UNION {[1..n -> ProjectNames] : n \in 0..MaxNames}

\* String.prototype.trim on the entries above
trim(p) == IF p = " lib " THEN "lib" ELSE p

\* .map(p => p.trim()).filter(p => p.length > 0)
ParseProjects(entries) ==
    LET trimmed == [i \in 1..Len(entries) |-> trim(entries[i])]
        NonEmpty(p) == p # ""
    IN  SelectSeq(trimmed, NonEmpty)

getAllowedProjectsOnly(setting) == ParseProjects(setting)
getIgnoredProjects(setting) == ParseProjects(setting)

\* Array.prototype.includes
includes(list, name) == \E i \in 1..Len(list) : list[i] = name

\* a filter that asks every name to be in the whitelist
isProjectIgnoredEvery(projectNames, allowedOnly, ignored) ==
    IF Len(allowedOnly) > 0
    THEN ~(\A i \in 1..Len(projectNames) : includes(allowedOnly, projectNames[i]))
    ELSE IF Len(ignored) > 0
         THEN \E i \in 1..Len(projectNames) : includes(ignored, projectNames[i])
         ELSE FALSE

\* isProjectIgnored: strict whitelist mode when the whitelist is non-empty,
\* otherwise blacklist mode, otherwise nothing is ignored
isProjectIgnored(projectNames, allowedOnly, ignored) ==
    IF Len(allowedOnly) > 0
    THEN ~(\E i \in 1..Len(projectNames) : includes(allowedOnly, projectNames[i]))
    ELSE IF Len(ignored) > 0
         THEN \E i \in 1..Len(projectNames) : includes(ignored, projectNames[i])
         ELSE FALSE

\* a handler that surfaces a non-OK answer as an error
ResultThrowOnNotOk(status) ==
    IF ~(status >= 200 /\ status <= 299) THEN Thrown ELSE StandardResult

\* if (!response.ok) return the standard response; otherwise return it too
ResultForResponse(status) ==
    IF ~(status >= 200 /\ status <= 299) THEN StandardResult ELSE StandardResult

\* a handler that validates transcriptPath before it consults the filter
AfterProjectCheckTranscriptFirst(ignored, hasTranscript) ==
    IF ~hasTranscript THEN [pc |-> "done", result |-> Thrown]
    ELSE IF ignored THEN [pc |-> "done", result |-> StandardResult]
    ELSE [pc |-> "extract", result |-> NoHookResult]

\* execute after ensureWorkerRunning: an ignored project returns the standard
\* response at once; otherwise a missing transcriptPath throws; otherwise the
\* transcript is read next
AfterProjectCheck(ignored, hasTranscript) ==
    IF ignored THEN [pc |-> "done", result |-> StandardResult]
    ELSE IF ~hasTranscript THEN [pc |-> "done", result |-> Thrown]
    ELSE [pc |-> "extract", result |-> NoHookResult]

HookIdle ==
    /\ hAllowed = <<>>
    /\ hIgnored = <<>>
    /\ hNames = <<>>
    /\ hTranscript = FALSE
    /\ hPc = "idle"
    /\ hIsIgnored = "none"
    /\ hStatus = 0
    /\ hRequests = 0
    /\ hResult = NoHookResult

HookInit ==
    /\ hAllowed \in SettingLists
    /\ hIgnored \in SettingLists
    /\ hNames \in NameLists
    /\ hTranscript \in BOOLEAN
    /\ hPc = "start"
    /\ hIsIgnored = "none"
    /\ hStatus = 0
    /\ hRequests = 0
    /\ hResult = NoHookResult

\* await ensureWorkerRunning(): the worker is ready
WorkerReady ==
    /\ hPc = "start"
    /\ hPc' = "ready"
    /\ UNCHANGED <<hAllowed, hIgnored, hNames, hTranscript, hIsIgnored, hStatus,
                   hRequests, hResult>>
    /\ UNCHANGED notHookVars

\* await ensureWorkerRunning(): the worker did not become ready, it throws
WorkerNotReady ==
    /\ hPc = "start"
    /\ hPc' = "done"
    /\ hResult' = Thrown
    /\ UNCHANGED <<hAllowed, hIgnored, hNames, hTranscript, hIsIgnored, hStatus,
                   hRequests>>
    /\ UNCHANGED notHookVars

\* the project filter and the validation of transcriptPath
CheckProject ==
    /\ hPc = "ready"
    /\ LET ignored == isProjectIgnored(hNames, getAllowedProjectsOnly(hAllowed),
                                       getIgnoredProjects(hIgnored))
           after == AfterProjectCheck(ignored, hTranscript)
       IN  /\ hIsIgnored' = (IF ignored THEN "true" ELSE "false")
           /\ hPc' = after.pc
           /\ hResult' = IF after.pc = "done" THEN after.result ELSE hResult
    /\ UNCHANGED <<hAllowed, hIgnored, hNames, hTranscript, hStatus, hRequests>>
    /\ UNCHANGED notHookVars

\* extractLastMessage reads the transcript, then the request is sent
ExtractLastMessage ==
    /\ hPc = "extract"
    /\ hPc' = "fetch"
    /\ hRequests' = hRequests + 1
    /\ UNCHANGED <<hAllowed, hIgnored, hNames, hTranscript, hIsIgnored, hStatus,
                   hResult>>
    /\ UNCHANGED notHookVars

\* extractLastMessage throws (its code is not shown; the transcript may be
\* unreadable)
ExtractThrows ==
    /\ hPc = "extract"
    /\ hPc' = "done"
    /\ hResult' = Thrown
    /\ UNCHANGED <<hAllowed, hIgnored, hNames, hTranscript, hIsIgnored, hStatus,
                   hRequests>>
    /\ UNCHANGED notHookVars

\* the worker answers the summarize request
FetchResponse(status) ==
    /\ hPc = "fetch"
    /\ hStatus' = status
    /\ hPc' = "done"
    /\ hResult' = ResultForResponse(status)
    /\ UNCHANGED <<hAllowed, hIgnored, hNames, hTranscript, hIsIgnored,
                   hRequests>>
    /\ UNCHANGED notHookVars

\* fetch rejects: no answer arrives
FetchRejects ==
    /\ hPc = "fetch"
    /\ hPc' = "done"
    /\ hResult' = Thrown
    /\ UNCHANGED <<hAllowed, hIgnored, hNames, hTranscript, hIsIgnored, hStatus,
                   hRequests>>
    /\ UNCHANGED notHookVars

HookNext ==
    \/ WorkerReady
    \/ WorkerNotReady
    \/ CheckProject
    \/ ExtractLastMessage
    \/ ExtractThrows
    \/ \E status \in HttpStatuses : FetchResponse(status)
    \/ FetchRejects

----------------------------------------------------------------------------
(* queryGeminiMultiTurn: what the retry loop does with one answer           *)

AnswerStatuses == {200, 429, 503}

WaitIdle ==
    /\ wMaxAttempts = 0
    /\ wBase = 0
    /\ wAttempt = 0
    /\ wStatus = 0
    /\ wBody = NoRetryInfo
    /\ wDelay = -1
    /\ wPc = "off"

\* maxAttempts and baseDelayMs come from the settings or the defaults
WaitInit ==
    /\ wMaxAttempts \in 1..MaxWaitAttempts
    /\ wBase \in {1000, DEFAULT_RETRY_BASE_DELAY_MS}
    /\ wAttempt = 0
    /\ wStatus = 0
    /\ wBody = NoRetryInfo
    /\ wDelay = -1
    /\ wPc = "fetch"

\* the fetch of one attempt is answered.  marker: the error text holds one of
\* the rate-limit markers; r: Math.random() in thousandths of 0.1
Respond(status, text, marker, r) ==
    /\ wPc = "fetch"
    /\ status = 200 => (text = NoRetryInfo /\ ~marker)
    /\ wStatus' = status
    /\ wBody' = text
    /\ IF status = 200
       THEN wPc' = "returned" /\ wDelay' = -1
       ELSE IF status = 429 /\ wAttempt < wMaxAttempts - 1
            THEN /\ wDelay' = RetryDelayFor(text, wAttempt, wBase, r)
                 /\ wPc' = "wait"
            ELSE IF (status = 429 \/ marker) /\ wAttempt < wMaxAttempts - 1
                 THEN /\ wDelay' = calculateBackoffDelay(wAttempt, wBase, r)
                      /\ wPc' = "wait"
                 ELSE wPc' = "thrown" /\ wDelay' = -1
    /\ UNCHANGED <<wMaxAttempts, wBase, wAttempt>>
    /\ UNCHANGED notWaitVars

\* the setTimeout of the wait fires: continue with the next attempt
WaitDone ==
    /\ wPc = "wait"
    /\ wAttempt' = wAttempt + 1
    /\ wPc' = "fetch"
    /\ UNCHANGED <<wMaxAttempts, wBase, wStatus, wBody, wDelay>>
    /\ UNCHANGED notWaitVars

WaitNext ==
    \/ \E status \in AnswerStatuses, text \in RetryDelayTexts, marker \in BOOLEAN,
          r \in Jitters : Respond(status, text, marker, r)
    \/ WaitDone

----------------------------------------------------------------------------
(* calculateBackoffDelay over attempts and base delays                      *)

\* base delays: the default, a configured second, and small odd values whose
\* jitter is a fraction of a millisecond
BaseDelays == {1, 3, 7, 1000, DEFAULT_RETRY_BASE_DELAY_MS}

BackoffIdle ==
    /\ bN = 0
    /\ bBase = 0
    /\ bDelay = -1
    /\ bNext = -1
    /\ bPc = "off"

BackoffInit ==
    /\ bN \in 0..MaxBackoffAttempt
    /\ bBase \in BaseDelays
    /\ bDelay = -1
    /\ bNext = -1
    /\ bPc = "input"

\* the delay of attempt bN and of the attempt after it, each with a
\* Math.random() of its own
ComputeBackoff(r, rNext) ==
    /\ bPc = "input"
    /\ bDelay' = BackoffThousandths(bN, bBase, r)
    /\ bNext' = BackoffThousandths(bN + 1, bBase, rNext)
    /\ bPc' = "done"
    /\ UNCHANGED <<bN, bBase>>
    /\ UNCHANGED notBackoffVars

BackoffNext == \E r \in Jitters, rNext \in Jitters : ComputeBackoff(r, rNext)

----------------------------------------------------------------------------
(* ensureWorkerRunning: poll /api/readiness, then check the version         *)

\* isWorkerHealthy: response.ok, !response.ok, or the fetch rejects
ReadinessOutcomes == {"ok", "not_ok", "rejects"}
\* checkWorkerVersion: the versions are equal, differ (logged), the version
\* request fails (!response.ok or a rejected fetch) or package.json cannot
\* be read
VersionOutcomes == {"match", "mismatch", "request_fails", "package_unreadable"}

\* the for loop's test with one poll too many
LoopContinuesInclusive(i) == i <= maxRetries

\* i < maxRetries
LoopContinues(i) == i < maxRetries

\* checkWorkerVersion is awaited inside the try block: it returns after a
\* match or a logged mismatch, and what it throws is caught by the same
\* catch as a failed readiness check
AfterVersionCheck(outcome) ==
    IF outcome \in {"match", "mismatch"} THEN "returned" ELSE "sleep"

EnsureIdle ==
    /\ eI = 0
    /\ eChecks = 0
    /\ eLast = "none"
    /\ eReady = "no"
    /\ ePc = "off"

EnsureInit ==
    /\ eI = 0
    /\ eChecks = 0
    /\ eLast = "none"
    /\ eReady = "no"
    /\ ePc = "poll"

\* await isWorkerHealthy() of one loop iteration
ReadinessCheck(outcome) ==
    /\ ePc = "poll"
    /\ LoopContinues(eI)
    /\ eChecks' = eChecks + 1
    /\ eLast' = outcome
    /\ eReady' = IF outcome = "ok" THEN "yes" ELSE eReady
    /\ ePc' = IF outcome = "ok" THEN "version" ELSE "sleep"
    /\ UNCHANGED eI
    /\ UNCHANGED notEnsureVars

\* await checkWorkerVersion(); return
VersionCheck(outcome) ==
    /\ ePc = "version"
    /\ ePc' = AfterVersionCheck(outcome)
    /\ UNCHANGED <<eI, eChecks, eLast, eReady>>
    /\ UNCHANGED notEnsureVars

\* the setTimeout(pollInterval) fires; i++
PollSleep ==
    /\ ePc = "sleep"
    /\ eI' = eI + 1
    /\ ePc' = "poll"
    /\ UNCHANGED <<eChecks, eLast, eReady>>
    /\ UNCHANGED notEnsureVars

\* the throw after the loop
ThrowNotReady ==
    /\ ePc = "poll"
    /\ ~LoopContinues(eI)
    /\ ePc' = "thrown"
    /\ UNCHANGED <<eI, eChecks, eLast, eReady>>
    /\ UNCHANGED notEnsureVars

EnsureNext ==
    \/ \E outcome \in ReadinessOutcomes : ReadinessCheck(outcome)
    \/ \E outcome \in VersionOutcomes : VersionCheck(outcome)
    \/ PollSleep
    \/ ThrowNotReady

----------------------------------------------------------------------------
(* worker-utils: the cached port, host and project filters                  *)

Getters == {"port", "host", "ignored", "allowed"}

\* contents of settings.json as SettingsDefaultsManager.loadFromFile
\* returns them
SettingsFiles ==
    { [port |-> "37777", host |-> "127.0.0.1",
       ignored |-> <<"">>, allowed |-> <<"">>],
      [port |-> "8080x", host |-> "0.0.0.0",
       ignored |-> <<"app">>, allowed |-> <<" lib ">>],
      [port |-> "abc", host |-> "127.0.0.1",
       ignored |-> <<"app", " lib ">>, allowed |-> <<"">>] }

\* parseInt(text, 10) on the ports above, as text
parseInt(text) ==
    CASE text = "37777" -> "37777"
      [] text = "8080x" -> "8080"
      [] OTHER -> "NaN"

\* what a getter computes from the file when its cache is empty
ReadSetting(g, file) ==
    CASE g = "port" -> parseInt(file.port)
      [] g = "host" -> file.host
      [] g = "ignored" -> getIgnoredProjects(file.ignored)
      [] g = "allowed" -> getAllowedProjectsOnly(file.allowed)

\* a cache slot: <<>> is null, <<v>> holds v
Uncached == <<>>
NoCall == [getter |-> "none", value |-> <<>>]

\* a getter that never trusts its cache
CacheNeverHit(cached) == FALSE

\* cachedX !== null
CacheHit(cached) == cached # Uncached

CacheIdle ==
    /\ cFile = [port |-> "", host |-> "", ignored |-> <<>>, allowed |-> <<>>]
    /\ cCache = [g \in Getters |-> Uncached]
    /\ cReads = [g \in Getters |-> 0]
    /\ cFirst = [g \in Getters |-> <<>>]
    /\ cLast = NoCall
    /\ cCalls = -1

\* module load: every cache is null
CacheInit ==
    /\ cFile \in SettingsFiles
    /\ cCache = [g \in Getters |-> Uncached]
    /\ cReads = [g \in Getters |-> 0]
    /\ cFirst = [g \in Getters |-> <<>>]
    /\ cLast = NoCall
    /\ cCalls = 0

\* getWorkerPort, getWorkerHost, getIgnoredProjects, getAllowedProjectsOnly
GetSetting(g) ==
    /\ cCalls >= 0
    /\ cCalls < MaxGetterCalls
    /\ LET hit == CacheHit(cCache[g])
           value == IF hit THEN cCache[g][1] ELSE ReadSetting(g, cFile)
       IN  /\ cCache' = [cCache EXCEPT ![g] = <<value>>]
           /\ cReads' = IF hit THEN cReads
                               ELSE [cReads EXCEPT ![g] = cReads[g] + 1]
           /\ cFirst' = IF cFirst[g] = <<>>
                        THEN [cFirst EXCEPT ![g] = <<value>>]
                        ELSE cFirst
           /\ cLast' = [getter |-> g, value |-> <<value>>]
    /\ cCalls' = cCalls + 1
    /\ UNCHANGED cFile
    /\ UNCHANGED notCacheVars

\* clearPortCache: all four caches become null
clearPortCache ==
    /\ cCalls >= 0
    /\ cCache' = [g \in Getters |-> Uncached]
    /\ cReads' = [g \in Getters |-> 0]
    /\ cFirst' = [g \in Getters |-> <<>>]
    /\ cLast' = NoCall
    /\ UNCHANGED <<cFile, cCalls>>
    /\ UNCHANGED notCacheVars

\* the settings file is rewritten
ChangeSettings(file) ==
    /\ cCalls >= 0
    /\ file # cFile
    /\ cFile' = file
    /\ UNCHANGED <<cCache, cReads, cFirst, cLast, cCalls>>
    /\ UNCHANGED notCacheVars

CacheNext ==
    \/ \E g \in Getters : GetSetting(g)
    \/ clearPortCache
    \/ \E file \in SettingsFiles : ChangeSettings(file)

----------------------------------------------------------------------------
(* smart-install: installDeps and needsInstall                              *)

\* what .install-version can hold before installDeps runs
MarkersBefore == {"absent", "corrupt", "old_version", "old_bun", "current"}

InstallCommands == <<"bun install", "bun install --force", "npm install">>

\* needsInstall(): no node_modules, an unreadable marker (the catch), or a
\* marker whose version or bun version differs
needsInstall(nodeModules, marker) ==
    IF ~nodeModules THEN TRUE
    ELSE CASE marker \in {"absent", "corrupt"} -> TRUE
           [] marker \in {"old_version", "old_bun"} -> TRUE
           [] OTHER -> FALSE

\* the command that runs at a position of installDeps
CommandAt(at) ==
    CASE at = "bun" -> InstallCommands[1]
      [] at = "force" -> InstallCommands[2]
      [] at = "npm" -> InstallCommands[3]

\* where installDeps goes after the command at a position succeeded or threw
AfterCommand(at, ok) ==
    IF ok THEN "marker"
    ELSE CASE at = "bun" -> "force"
           [] at = "force" -> "npm"
           [] at = "npm" -> "thrown"

InstallIdle ==
    /\ iBunFound = FALSE
    /\ iNodeModules = FALSE
    /\ iMarker = "off"
    /\ iTried = <<>>
    /\ iPc = "off"
    /\ iRun = 0

\* the main script calls installDeps only when needsInstall() is true
InstallInit ==
    /\ iBunFound \in BOOLEAN
    /\ iNodeModules \in BOOLEAN
    /\ iMarker \in MarkersBefore
    /\ needsInstall(iNodeModules, iMarker)
    /\ iTried = <<>>
    /\ iPc = "start"
    /\ iRun = 1

\* getBunPath(); throw new Error('Bun executable not found')
GetBunPath ==
    /\ iPc = "start"
    /\ iPc' = IF iBunFound THEN "bun" ELSE "thrown"
    /\ UNCHANGED <<iBunFound, iNodeModules, iMarker, iTried, iRun>>
    /\ UNCHANGED notInstallVars

\* one execSync of an install command.  ok: it exits with 0; creates: a
\* failing command leaves a node_modules directory behind
RunInstall(ok, creates) ==
    /\ iPc \in {"bun", "force", "npm"}
    /\ iTried' = Append(iTried, [cmd |-> CommandAt(iPc), ok |-> ok])
    /\ iNodeModules' = (iNodeModules \/ ok \/ creates)
    /\ iPc' = AfterCommand(iPc, ok)
    /\ UNCHANGED <<iBunFound, iMarker, iRun>>
    /\ UNCHANGED notInstallVars

\* writeFileSync(MARKER, ...) with the current versions
WriteMarker ==
    /\ iPc = "marker"
    /\ iMarker' = "fresh"
    /\ iPc' = "returned"
    /\ UNCHANGED <<iBunFound, iNodeModules, iTried, iRun>>
    /\ UNCHANGED notInstallVars

\* the script runs again (the next session start): if (needsInstall())
\* installDeps().  A marker the earlier run wrote is the current one now.
RunAgain ==
    /\ iPc \in {"returned", "thrown", "skipped"}
    /\ iRun < MaxInstallRuns
    /\ iRun' = iRun + 1
    /\ iTried' = <<>>
    /\ iPc' = IF needsInstall(iNodeModules, iMarker) THEN "start" ELSE "skipped"
    /\ iMarker' = IF iMarker = "fresh" THEN "current" ELSE iMarker
    /\ UNCHANGED <<iBunFound, iNodeModules>>
    /\ UNCHANGED notInstallVars

InstallNext ==
    \/ RunAgain
    \/ GetBunPath
    \/ \E ok \in BOOLEAN, creates \in BOOLEAN : RunInstall(ok, creates)
    \/ WriteMarker

----------------------------------------------------------------------------
(* Specifications *)

AgentIdle ==
    /\ cfg = [apiKey |-> FALSE, disableFallback |-> TRUE,
              fallbackSet |-> FALSE, retrySetting |-> 0]
    /\ pc = "off"
    /\ qpc = "none"
    /\ attempt = 0
    /\ consec429 = 0
    /\ queue = <<>>
    /\ nextId = 1
    /\ cur = NoMsg
    /\ inFlight = {}
    /\ history = <<>>
    /\ memorySessionId = FALSE
    /\ lastPromptNumber = 1
    /\ processed = <<>>
    /\ err = NoErr
    /\ lastFail = NoErr
    /\ abortSignal = FALSE
    /\ fallbackCalls = 0
    /\ fallbackHistory = <<>>
    /\ pushed = <<>>
    /\ qRequests = 0
    /\ abortAt = NoAbort

\* one run of GeminiAgent.startSession
Init == AgentInit /\ TruncIdle /\ RateIdle /\ LockIdle /\ StoreIdle /\ RecIdle
    /\ SearchIdle
    /\ HookIdle
    /\ WaitIdle
    /\ BackoffIdle
    /\ EnsureIdle
    /\ CacheIdle
    /\ InstallIdle
Next == AgentNext
Spec == Init /\ [][Next]_vars

\* the same run with the scheduling the runtime gives: a pending setTimeout
\* fires and a fetch that was sent settles
Fairness ==
    /\ WF_vars(RateLimitDone)
    /\ WF_vars(BackoffDone)
    /\ WF_vars(FetchOk \/ FetchFail)
FairNext ==
    \/ EnqueueFair
    \/ Abort
    \/ StartSession
    \/ RateLimitDone
    \/ FetchOk
    \/ FetchFail
    \/ BackoffDone
    \/ ProcessDone
    \/ IteratorNext
    \/ IteratorEnd
    \/ AbortThrown
    \/ Catch
SpecFair == Init /\ [][FairNext]_vars /\ Fairness

\* truncateHistory applied to every bounded history and budget
TruncNext == Truncate
InitTrunc == AgentIdle /\ TruncInit /\ RateIdle /\ LockIdle /\ StoreIdle /\ RecIdle
    /\ SearchIdle
    /\ HookIdle
    /\ WaitIdle
    /\ BackoffIdle
    /\ EnsureIdle
    /\ CacheIdle
    /\ InstallIdle
SpecTrunc == InitTrunc /\ [][TruncNext]_vars

\* concurrent queryGeminiMultiTurn calls sharing lastRequestTime
InitRate == AgentIdle /\ TruncIdle /\ RateInit /\ LockIdle /\ StoreIdle /\ RecIdle
    /\ SearchIdle
    /\ HookIdle
    /\ WaitIdle
    /\ BackoffIdle
    /\ EnsureIdle
    /\ CacheIdle
    /\ InstallIdle
SpecRate == InitRate /\ [][RateNext]_vars

\* two processes calling acquireSpawnLock / releaseSpawnLock
InitLock == AgentIdle /\ TruncIdle /\ RateIdle /\ LockInit /\ StoreIdle /\ RecIdle
    /\ SearchIdle
    /\ HookIdle
    /\ WaitIdle
    /\ BackoffIdle
    /\ EnsureIdle
    /\ CacheIdle
    /\ InstallIdle
SpecLock == InitLock /\ [][LockNext]_vars

\* the store, the orchestrator's drain loops and one more claimant
InitStore == AgentIdle /\ TruncIdle /\ RateIdle /\ LockIdle /\ StoreInit /\ RecIdle
    /\ SearchIdle
    /\ HookIdle
    /\ WaitIdle
    /\ BackoffIdle
    /\ EnsureIdle
    /\ CacheIdle
    /\ InstallIdle
SpecStore == InitStore /\ [][StoreNext]_vars

\* the status of queued messages across crashes and start-ups
InitRec == AgentIdle /\ TruncIdle /\ RateIdle /\ LockIdle /\ StoreIdle /\ RecInit
    /\ SearchIdle
    /\ HookIdle
    /\ WaitIdle
    /\ BackoffIdle
    /\ EnsureIdle
    /\ CacheIdle
    /\ InstallIdle
SpecRec == InitRec /\ [][RecNext]_vars

\* searches against the relational store and a ChromaDB that comes and goes
InitSearch ==
    AgentIdle /\ TruncIdle /\ RateIdle /\ LockIdle /\ StoreIdle /\ RecIdle
    /\ SearchInit
    /\ HookIdle
    /\ WaitIdle
    /\ BackoffIdle
    /\ EnsureIdle
    /\ CacheIdle
    /\ InstallIdle
SpecSearch == InitSearch /\ [][SearchNext]_vars

\* summarizeHandler.execute on every setting, name list and worker answer
InitHook ==
    AgentIdle /\ TruncIdle /\ RateIdle /\ LockIdle /\ StoreIdle /\ RecIdle
    /\ SearchIdle
    /\ HookInit
    /\ WaitIdle
    /\ BackoffIdle
    /\ EnsureIdle
    /\ CacheIdle
    /\ InstallIdle
SpecHook == InitHook /\ [][HookNext]_vars

\* the retry loop of one queryGeminiMultiTurn call on every answer
InitWait ==
    AgentIdle /\ TruncIdle /\ RateIdle /\ LockIdle /\ StoreIdle /\ RecIdle
    /\ SearchIdle
    /\ HookIdle /\ WaitInit
    /\ BackoffIdle
    /\ EnsureIdle
    /\ CacheIdle
    /\ InstallIdle
SpecWait == InitWait /\ [][WaitNext]_vars


\* calculateBackoffDelay on every attempt and base delay of the bounds
InitBackoff ==
    AgentIdle /\ TruncIdle /\ RateIdle /\ LockIdle /\ StoreIdle /\ RecIdle
    /\ SearchIdle /\ HookIdle /\ WaitIdle
    /\ BackoffInit
    /\ EnsureIdle
    /\ CacheIdle
    /\ InstallIdle
SpecBackoff == InitBackoff /\ [][BackoffNext]_vars


\* one ensureWorkerRunning call against every behaviour of the worker
InitEnsure ==
    AgentIdle /\ TruncIdle /\ RateIdle /\ LockIdle /\ StoreIdle /\ RecIdle
    /\ SearchIdle /\ HookIdle /\ WaitIdle /\ BackoffIdle
    /\ EnsureInit
    /\ CacheIdle
    /\ InstallIdle
SpecEnsure == InitEnsure /\ [][EnsureNext]_vars


\* the four cached getters, clearPortCache and a changing settings file
InitCache ==
    AgentIdle /\ TruncIdle /\ RateIdle /\ LockIdle /\ StoreIdle /\ RecIdle
    /\ SearchIdle /\ HookIdle /\ WaitIdle /\ BackoffIdle /\ EnsureIdle
    /\ CacheInit
    /\ InstallIdle
SpecCache == InitCache /\ [][CacheNext]_vars


\* installDeps after needsInstall() returned true, and the script's next run
InitInstall ==
    AgentIdle /\ TruncIdle /\ RateIdle /\ LockIdle /\ StoreIdle /\ RecIdle
    /\ SearchIdle /\ HookIdle /\ WaitIdle /\ BackoffIdle /\ EnsureIdle
    /\ CacheIdle
    /\ InstallInit
SpecInstall == InitInstall /\ [][InstallNext]_vars

----------------------------------------------------------------------------
(* Claims about GeminiAgent.startSession (specification Spec) *)

Last(seq) == seq[Len(seq)]

\* the request of the claimed message was answered 429 on every attempt
Exhausted429 ==
    /\ cur.type = "observation"
    /\ consec429 = maxAttempts
    /\ pc \in EndPcs

\* C1: within one run the next message is claimed only after the previous
\* message's request has returned and its processAgentResponse call has
\* completed; at most one message of the session is in flight.
C1_SequentialProcessing ==
    /\ Cardinality(inFlight) <= 1
    /\ inFlight # {} => inFlight = {cur.id}
    /\ \A i \in 1..(Len(processed) - 1) : processed[i].done
    /\ (pc \in {"obs_query", "sum_query"} /\ processed # <<>>)
          => Last(processed).done /\ Last(processed).id # cur.id

C1_Witness ==
    /\ pc \in {"obs_query", "sum_query"}
    /\ cur.id = 2
    /\ Len(processed) = 1
    /\ processed[1].id = 1
    /\ processed[1].done

\* C2: a run ended by an abort error rethrows it and never calls the
\* fallback agent, whatever the fallback setting and agent.
C2_AbortNeverFallsBack ==
    (isAbortError(err) /\ pc \in EndPcs) => (pc = "aborted" /\ fallbackCalls = 0)

C2_Witness ==
    /\ pc = "aborted"
    /\ isAbortError(err)
    /\ cfg.fallbackSet
    /\ ~cfg.disableFallback

\* C3 as stated: five consecutive 429 answers to the request of a claimed
\* observation message end with the session handed to the fallback agent
\* and the message delivered (persisted by this run, or handed over as the
\* last turn of the history).
C3_Original ==
    (Exhausted429 /\ consec429 = 5) =>
        /\ pc = "fallback"
        /\ fallbackCalls = 1
        /\ Last(fallbackHistory) = [role |-> "user", ref |-> cur.id]

\* C3 amended: when every one of the maxAttempts attempts (five by default)
\* is answered 429, the 429 error reaches the catch block; the session is
\* handed to the fallback agent exactly when a fallback agent is set and
\* shouldFallbackToClaude accepts the error under the configured
\* CLAUDE_MEM_DISABLE_CLAUDE_FALLBACK, and the hand-over passes the history
\* ending with the message's prompt; otherwise the error is rethrown.  The
\* Gemini run neither calls processAgentResponse for the message nor puts it
\* back on the queue.
C3_Amended ==
    Exhausted429 =>
        /\ err.kind = "http" /\ err.status = 429
        /\ attempt = maxAttempts - 1
        /\ (pc = "fallback") <=>
              (cfg.fallbackSet /\ shouldFallbackToClaude(err, cfg.disableFallback))
        /\ pc = "fallback" =>
              /\ fallbackCalls = 1
              /\ fallbackHistory = history
              /\ Last(history) = [role |-> "user", ref |-> cur.id]
        /\ pc # "fallback" => pc = "failed" /\ fallbackCalls = 0
        /\ \A i \in 1..Len(processed) : processed[i].id # cur.id
        /\ \A i \in 1..Len(queue) : queue[i].id # cur.id

C3_Witness ==
    /\ Exhausted429
    /\ maxAttempts = DEFAULT_RETRY_MAX_ATTEMPTS
    /\ pc = "fallback"

\* C4 as stated: a request failing with a network failure, HTTP 5xx or HTTP
\* 429 reaches startSession only after the retry budget is exhausted.
C4_Original ==
    (err \in FetchFailures /\ pc \in {"catch"} \cup EndPcs)
        => attempt = maxAttempts - 1

\* C4 amended: a failed attempt is followed by a backoff wait and another
\* attempt only when the failure is a rate-limit error (HTTP 429, or a
\* message with a rate-limit marker) and attempts remain; a rate-limit error
\* reaches startSession only on the last attempt, and any other failure
\* (network failure, HTTP 5xx without a marker) reaches it on the attempt
\* where it occurs.
C4_Amended ==
    /\ qpc = "backoff" =>
          /\ isRateLimitError(lastFail)
          /\ attempt < maxAttempts - 1
          /\ pc \in QueryPcs
    /\ (err \in FetchFailures /\ pc \in {"catch"} \cup EndPcs) =>
          /\ lastFail = err
          /\ isRateLimitError(err) => attempt = maxAttempts - 1
    /\ (lastFail \in FetchFailures /\ ~isRateLimitError(lastFail)) =>
          err = lastFail /\ pc \in {"catch"} \cup EndPcs

C4_Witness ==
    /\ pc = "catch"
    /\ err.kind = "network"
    /\ ~isRateLimitError(err)
    /\ attempt = 1
    /\ maxAttempts = DEFAULT_RETRY_MAX_ATTEMPTS

\* the turns of h alternate user, assistant, user, ...
Alternates(h) ==
    \A i \in 1..Len(h) :
        h[i].role = (IF i % 2 = 1 THEN "user" ELSE "assistant")

\* C37: after the init turn and after each fully processed queued message
\* (the loop is at its head), session.conversationHistory alternates user
\* and assistant turns, starting with a user turn, whatever content Gemini
\* returned.
C37_HistoryAlternates ==
    pc = "loop" => Alternates(history)

\* C39: session.conversationHistory is append-only during a run: every step
\* leaves the turns stored so far in place and in order, so its length never
\* decreases.
C39_HistoryAppendOnly ==
    [][/\ Len(history') >= Len(history)
       /\ SubSeq(history', 1, Len(history)) = history]_vars

\* a query is in flight on a stored history of four turns or more
C39_Witness ==
    /\ pc \in QueryPcs
    /\ qRequests > 0
    /\ Len(history) >= 4

----------------------------------------------------------------------------
(* Claims about truncateHistory (specification SpecTrunc) *)

IsSuffix(r, h) ==
    /\ Len(r) <= Len(h)
    /\ r = SubSeq(h, Len(h) - Len(r) + 1, Len(h))

WithinLimits(h) ==
    /\ Len(h) <= MAX_CONTEXT_MESSAGES(tSettings.messages)
    /\ totalTokens(h) <= MAX_ESTIMATED_TOKENS(tSettings.tokens)

\* C6: the history sent to Gemini is a contiguous suffix of the stored
\* history, within the message limit and the estimated-token limit, and is
\* the full history when the full history is within both limits.
C6_TruncateHistory ==
    tPc = "done" =>
        /\ IsSuffix(tResult, tHistory)
        /\ WithinLimits(tResult)
        /\ WithinLimits(tHistory) => tResult = tHistory

C6_Witness ==
    /\ tPc = "done"
    /\ Len(tHistory) = 3
    /\ Len(tResult) = 1
    /\ tSettings.messages = 2
    /\ tSettings.tokens = 3

\* C38: the request built from a history that ends with the prompt just
\* appended is non-empty and ends with that prompt, for every history and
\* every configured message and token budget.
C38_NewestTurnIsSent ==
    (tPc = "done" /\ tHistory # <<>>) =>
        /\ tResult # <<>>
        /\ Last(tResult) = Last(tHistory)

----------------------------------------------------------------------------
(* Claims about the rate limiter (specification SpecRate) *)

\* C5: with rate limiting enabled, any two HTTP requests sent to Gemini are
\* at least ceil(60000 / rpm) + 100 ms apart, for every interleaving of
\* concurrent sessions and including the requests re-sent by the retry loop.
C5_RequestSpacing ==
    (rCfg.rateLimitingEnabled /\ minGap >= 0)
        => minGap >= minimumDelayMs(rCfg.model)

----------------------------------------------------------------------------
(* Claims about the spawn lock (specification SpecLock) *)

\* C7: for any interleaving of the file steps of acquireSpawnLock and
\* releaseSpawnLock by two processes, at most one process at a time holds
\* the spawn lock, also when they start from a stale or corrupted lock file.
C7_MutualExclusion ==
    Cardinality({p \in Procs : holds[p]}) <= 1

\* C28: for any interleaving with the other process's acquireSpawnLock, the
\* unlinkSync of releaseSpawnLock removes only a lock file that records the
\* releasing process's pid, never the lock file of the other process.
C28_ReleaseOnlyOwnLock ==
    [][\A p \in Procs :
          (lpc[p] = "rel_unlink" /\ lpc'[p] = "idle" /\ lockFile.exists)
              => lockFile.pid = p]_vars

\* C34: a lock left by a crashed holder does not block: an acquireSpawnLock
\* call that began on a lock file that was corrupted, older than 60 s or
\* recording a dead process, and that no step of another process disturbed,
\* does not end with false; once it has ended the caller holds the lock and
\* the file records the caller's pid.
C34_StaleLockIsTakenOver ==
    \A p \in Procs :
        lCall[p] = "stale_alone" =>
            /\ lpc[p] \in {"read", "unlink", "catch_unlink", "write", "holding"}
            /\ lpc[p] = "holding" =>
                  /\ holds[p]
                  /\ lockFile.exists /\ ~lockFile.corrupt /\ lockFile.pid = p

\* p1 holds the lock after an undisturbed call on a stale lock of p2, which
\* is alive
C34_Witness ==
    /\ lCall["p1"] = "stale_alone"
    /\ lpc["p1"] = "holding"
    /\ lockFile.pid = "p1"
    /\ lockInfo["p1"].pid = "p2"

----------------------------------------------------------------------------
(* Claims about the store and the orchestrator (specification SpecStore) *)

\* C8: for every session and interleaving of concurrent claim attempts,
\* claimAndDeleteNext returns each enqueued message at most once.
C8_ClaimedAtMostOnce ==
    /\ \A i \in MsgIds : claimCount[i] <= 1
    /\ \A i \in 1..Len(sQueue) : claimCount[sQueue[i].id] = 0
    /\ \A x \in Sessions : loopMsg[x] # NoStoreMsg => loopMsg[x].id # extMsg.id

\* two claimants hold two messages of one session at the same time
C8_Witness ==
    \E x \in Sessions :
        /\ loopMsg[x] # NoStoreMsg
        /\ extMsg # NoStoreMsg
        /\ extMsg.session = x
        /\ claimCount[loopMsg[x].id] = 1
        /\ claimCount[extMsg.id] = 1

\* C9: at most one Active drain loop per session at any time; a request to
\* process a session whose loop is Active starts no second loop and reports
\* the session as skipped.
C9_OneDrainLoopPerSession ==
    /\ [](\A x \in Sessions : running[x] <= 1 /\ (running[x] = 1 <=> x \in active))
    /\ [][\A x \in Sessions :
            /\ running'[x] > running[x] => x \notin active /\ x \in lastReport'.started
            /\ (lastReport' # lastReport /\ x \in active /\ PendingOf(sQueue, x) # {}
                  /\ x \in lastReport'.started \cup lastReport'.skipped)
                 => x \in lastReport'.skipped /\ running'[x] = running[x]]_vars

\* a trigger skipped a session whose loop is running
C9_Witness ==
    \E x \in Sessions :
        /\ running[x] = 1
        /\ x \in lastReport.skipped
        /\ loopMsg[x] # NoStoreMsg

----------------------------------------------------------------------------
(* Further claims about startSession (specification Spec) *)

\* the prompts of queued messages in the conversation history, in order
QueuedPrompts(h) == SelectSeq(h, LAMBDA t : t.role = "user" /\ t.ref > 0)

\* C12: within one session messages are claimed, and their prompts appended
\* to the conversation history, in the order in which they were enqueued,
\* whatever the interleaving of enqueues with the running drain loop
\* (message ids are assigned in enqueue order).
C12_FifoWithinSession ==
    /\ \A i, j \in 1..Len(QueuedPrompts(history)) :
          i < j => QueuedPrompts(history)[i].ref < QueuedPrompts(history)[j].ref
    /\ \A i \in 1..Len(QueuedPrompts(history)), j \in 1..Len(queue) :
          QueuedPrompts(history)[i].ref < queue[j].id
    /\ \A i, j \in 1..Len(processed) : i < j => processed[i].id < processed[j].id

\* two messages were claimed, the second enqueued while two were pending
C12_Witness ==
    /\ Len(QueuedPrompts(history)) >= 2
    /\ Len(processed) >= 2

\* C13: within one run of startSession the Gemini agent hands the session to
\* the fallback agent at most once, and after the hand-over it sends no
\* further Gemini request and claims no further message in that run.
C13_FallbackOnce ==
    /\ [](fallbackCalls <= 1)
    /\ [][fallbackCalls >= 1 =>
            /\ fallbackCalls' = fallbackCalls
            /\ qRequests' = qRequests
            /\ history' = history
            /\ cur' = cur
            /\ Len(queue') >= Len(queue)]_vars

\* the session was handed over while a message is still pending
C13_Witness ==
    /\ pc = "fallback"
    /\ fallbackCalls = 1
    /\ qRequests > 0
    /\ queue # <<>>

\* C14: when control transfers to the fallback agent it receives the same
\* session, whose conversationHistory holds, in order, every turn appended
\* before the failure, the user prompt whose request failed included; the
\* hand-over removes or reorders no turn.
C14_HandOverHistory ==
    pc = "fallback" =>
        /\ fallbackHistory = pushed
        /\ history = pushed
        /\ err \in FetchFailures =>
              Last(fallbackHistory) = [role |-> "user", ref |-> cur.id]

\* the request of the second message failed and the session was handed over
C14_Witness ==
    /\ pc = "fallback"
    /\ cur.id = 2
    /\ Len(fallbackHistory) >= 4
    /\ Len(processed) = 1

\* C15 as stated: without an API key and with a fallback agent set,
\* startSession sends no request and transfers the session to the fallback
\* agent instead of failing.
C15_Original ==
    (~cfg.apiKey /\ cfg.fallbackSet /\ pc \in EndPcs) =>
        (qRequests = 0 /\ pc = "fallback")

\* C15 amended: without an API key startSession sends no Gemini request and
\* pushes no prompt; the error reaches the catch block, and the session is
\* transferred to the fallback agent exactly when a fallback agent is set
\* and shouldFallbackToClaude accepts the error under
\* CLAUDE_MEM_DISABLE_CLAUDE_FALLBACK; otherwise the run fails.
C15_Amended ==
    (~cfg.apiKey /\ pc # "idle") =>
        /\ qRequests = 0
        /\ history = <<>>
        /\ err = ConfigError
        /\ pc \in {"catch", "fallback", "failed"}
        /\ pc \in EndPcs =>
              (pc = "fallback" <=>
                 (cfg.fallbackSet
                    /\ shouldFallbackToClaude(ConfigError, cfg.disableFallback)))

\* no API key, and the session went to the fallback agent
C15_Witness ==
    /\ ~cfg.apiKey
    /\ cfg.fallbackSet
    /\ pc = "fallback"
    /\ fallbackCalls = 1

\* C16: in a Gemini run no queued message is claimed before the session's
\* memory_session_id has been assigned, also when the init response has
\* empty content.
C16_MemoryIdBeforeClaim ==
    (pc = "loop" \/ cur # NoMsg \/ processed # <<>>
        \/ QueuedPrompts(history) # <<>>) => memorySessionId

\* a message was claimed after an init response without content
C16_Witness ==
    /\ cur # NoMsg
    /\ memorySessionId
    /\ \E i \in 1..Len(history) : history[i] = [role |-> "assistant", ref |-> -1]

\* C17: when Gemini answers an observation or summarize message without
\* extractable content, startSession neither throws nor falls back: it calls
\* processAgentResponse for the message with empty text and 0 tokens and
\* goes on to the next queued message.
C17_EmptyResponseProcessed ==
    /\ \A i \in 1..Len(processed) :
          processed[i].text = "empty" => processed[i].tokens = 0
    /\ pc \in {"loop", "completed"} =>
          /\ Len(processed) = Len(QueuedPrompts(history))
          /\ \A i \in 1..Len(processed) :
                processed[i].id = QueuedPrompts(history)[i].ref /\ processed[i].done
    /\ pc \in {"obs_process", "sum_process"} =>
          (Last(processed).id = cur.id /\ ~Last(processed).done)
    /\ pc \in {"catch", "failed", "fallback"} =>
          (err \in {ConfigError, AbortError} \/ err = lastFail)

\* an empty response was processed and the next message was claimed
C17_Witness ==
    /\ Len(processed) >= 2
    /\ processed[1].text = "empty"
    /\ processed[1].done
    /\ processed[2].id = 2

\* what C18 says of every state of a queryGeminiMultiTurn call
AttemptsBounded ==
    /\ qRequests <= maxAttempts
    /\ attempt <= maxAttempts - 1
    /\ qpc = "backoff" => (qRequests = attempt + 1 /\ qRequests < maxAttempts)
    /\ qpc = "fetch" => qRequests = attempt
    /\ consec429 = maxAttempts =>
          /\ qRequests = maxAttempts
          /\ qpc = "none"
          /\ err = lastFail
          /\ pc \in {"catch"} \cup EndPcs

\* C18: one call of queryGeminiMultiTurn sends at most maxAttempts HTTP
\* requests (default 5) and always terminates; when every attempt is
\* rate-limited the last error is thrown after the final attempt, with no
\* wait after it.
C18_BoundedRetries ==
    /\ []AttemptsBounded
    /\ (qpc # "none") ~> (qpc = "none")

\* the default five attempts were all answered 429 and the error was thrown
C18_Witness ==
    /\ maxAttempts = DEFAULT_RETRY_MAX_ATTEMPTS
    /\ consec429 = DEFAULT_RETRY_MAX_ATTEMPTS
    /\ qRequests = DEFAULT_RETRY_MAX_ATTEMPTS
    /\ pc = "catch"

\* C19: if an abort is signalled while the Gemini agent is inside a
\* rate-limit wait or a retry backoff wait, the wait ends early and no
\* further Gemini request is sent in that run; the abort is also observed
\* between two queue iterations.
C19_AbortEndsWaits ==
    /\ abortAt # "wait_sent"
    /\ (abortSignal /\ pc \in {"obs_query", "sum_query"} /\ abortAt = "other")
          => qpc # "ratelimit"

\* C25: when processAgentResponse is called for an observation message that
\* carries a prompt_number, session.lastPromptNumber is that prompt number, and
\* the record handed over for persisting is attributed to it.
C25_PromptNumberAttribution ==
    (pc = "obs_process" /\ cur.prompt_number # 0) =>
        /\ lastPromptNumber = cur.prompt_number
        /\ Last(processed).id = cur.id
        /\ Last(processed).prompt_number = cur.prompt_number

\* the response to an observation of prompt 2 is being processed after the
\* session started at prompt 1
C25_Witness ==
    /\ pc = "obs_process"
    /\ cur.prompt_number = 2
    /\ Last(processed).prompt_number = 2
    /\ Len(processed) >= 1

----------------------------------------------------------------------------
(* Claims about recovery (specification SpecRec) *)

\* C11: after recoverOnStartup completes no message has status processing:
\* every message that was processing before the call is pending, and the
\* messages in other statuses are unchanged.
C11_RecoverOnStartup ==
    rPc = "recovered" =>
        \A i \in RecIds :
            /\ rStatus[i] # "processing"
            /\ rBefore[i] = "processing" => rStatus[i] = "pending"
            /\ rBefore[i] # "processing" => rStatus[i] = rBefore[i]

\* a start-up found one message processing, one failed and one processed
C11_Witness ==
    /\ rPc = "recovered"
    /\ \E i, j, k \in RecIds :
        /\ rBefore[i] = "processing" /\ rStatus[i] = "pending"
        /\ rBefore[j] = "failed" /\ rStatus[j] = "failed"
        /\ rBefore[k] = "processed" /\ rStatus[k] = "processed"

----------------------------------------------------------------------------
(* Claims about search (specification SpecSearch) *)

C21_RecencyRemovesNothing ==
    [][sRes' # NoResult =>
          /\ sRows' = sRows
          /\ sIndex' = sIndex
          /\ (sReq'.query = NoQuery /\ sReq'.type = NoFilter) =>
                \A r \in sRows : r.created >= sReq'.dateStart => r \in sRes'.rows]_vars

\* a filter-only search from the old day on returned a row older than the
\* window whose vector document is in the index
C21_Witness ==
    /\ sRes.kind = "ok"
    /\ sReq.query = NoQuery
    /\ sReq.type = NoFilter
    /\ sReq.dateStart = OldDay
    /\ \E r \in sRes.rows :
          /\ r.created <= Today - RECENCY_WINDOW_DAYS
          /\ DocOf(r) \in sIndex

\* C22: every record a search returns is a row of the relational store at
\* hydration time, and a search over a reachable index ends without error
\* even when a hit resolves to no row.
C22_HydratedRowsExist ==
    sRes # NoResult =>
        /\ sRes.rows \subseteq sSnap
        /\ (sReq.query # NoQuery /\ sReq.up) => sRes.kind = "ok"

\* a search whose recent hits were a document without a relational row and a
\* document with one returned the latter only
C22_Witness ==
    /\ sRes.kind = "ok"
    /\ sReq.query # NoQuery
    /\ \E d \in RecencyFilter(sReq.hits) : \A r \in sSnap : r.id # d.sqlite_id
    /\ Cardinality(sRes.rows) = 1
    /\ Cardinality(RecencyFilter(sReq.hits)) = 2

\* C23: a sync that fails leaves the committed rows as they are, and while a
\* sync is pending or has failed the next message can still be claimed and
\* processed.
C23_SyncFireAndForget ==
    [][/\ \A id \in 1..MaxRows :
             (sSync[id] = "pending" /\ sSync'[id] = "failed") => sRows' = sRows
       /\ ((\E id \in 1..MaxRows : sSync[id] \in {"pending", "failed"})
            /\ (\E id \in 1..MaxRows : sSync[id] = "none"))
              => ENABLED (\E shape \in RowShapes : StoreObservation(shape))]_vars

\* the second record was committed while the sync of the first was pending,
\* the sync of the second failed, and both rows are in the store
C23_Witness ==
    /\ sSync[1] = "pending"
    /\ sSync[2] = "failed"
    /\ \A id \in 1..2 : \E r \in sRows : r.id = id

\* the strategies the table names for the request served
Applicable == {s \in Strategies : StrategyApplies(s, sReq.query, sReq.type)}

----------------------------------------------------------------------------
(* Claims about the hook (specification SpecHook) *)

\* the names of a list
Elems(list) == {list[i] : i \in 1..Len(list)}

\* C26: with a non-empty whitelist isProjectIgnored is true exactly when no
\* name is in the whitelist, whatever the blacklist holds; with an empty
\* whitelist and a non-empty blacklist it is true exactly when some name is in
\* the blacklist; with both empty it is false.
C26_IsProjectIgnored ==
    hIsIgnored # "none" =>
        LET whitelist == Elems(getAllowedProjectsOnly(hAllowed))
            blacklist == Elems(getIgnoredProjects(hIgnored))
            names == Elems(hNames)
        IN  (hIsIgnored = "true") <=>
                IF whitelist # {} THEN names \cap whitelist = {}
                ELSE IF blacklist # {} THEN names \cap blacklist # {}
                ELSE FALSE

\* two names, one in the whitelist and one in the blacklist only: not ignored
C26_Witness ==
    /\ hIsIgnored = "false"
    /\ Elems(hNames) = {"app", "lib"}
    /\ Elems(getAllowedProjectsOnly(hAllowed)) = {"app"}
    /\ "lib" \in Elems(getIgnoredProjects(hIgnored))

\* C27: once the worker was ready, the project not ignored and transcriptPath
\* present, whatever HTTP status the worker answers the summarize request
\* with, execute returns {continue: true, suppressOutput: true} and throws
\* nothing.
C27_StandardResultForAnyStatus ==
    hStatus # 0 =>
        /\ hPc = "done"
        /\ hIsIgnored = "false"
        /\ hTranscript
        /\ hResult = StandardResult
        /\ hResult.continue /\ hResult.suppressOutput

\* the worker answered 500 and execute returned the standard result
C27_Witness ==
    /\ hStatus = 500
    /\ hResult = StandardResult

----------------------------------------------------------------------------
(* Claims about the retry waits (specification SpecWait) *)

\* the suggested delay rounded up to whole milliseconds
SuggestedMillis(text) == CeilDiv(ExactNanos(text), NanosPerMs)

----------------------------------------------------------------------------
(* Claims about calculateBackoffDelay (specification SpecBackoff) *)

----------------------------------------------------------------------------
(* Claims about ensureWorkerRunning (specification SpecEnsure) *)

\* C32: ensureWorkerRunning performs at most 150 readiness checks; it has
\* returned only when the latest readiness check succeeded; it throws only
\* after 150 checks, and when none of the 150 succeeded the only step left
\* is the throw.
C32_PollBudget ==
    /\ eChecks <= maxRetries
    /\ ePc = "returned" => (eLast = "ok" /\ eReady = "yes")
    /\ ePc = "thrown" => eChecks = maxRetries
    /\ (eChecks = maxRetries /\ eReady = "no") =>
          \/ ePc = "sleep"
          \/ ePc = "poll" /\ eI = maxRetries /\ ENABLED ThrowNotReady
          \/ ePc = "thrown"

\* 150 readiness checks, none of them successful, and the throw
C32_Witness ==
    /\ ePc = "thrown"
    /\ eChecks = maxRetries
    /\ eReady = "no"

\* C40: once a readiness check has succeeded, ensureWorkerRunning does not
\* end in the 'did not become ready' failure, whatever the version check
\* does.
C40_ReadyNeverFails ==
    ePc = "thrown" => eReady = "no"


----------------------------------------------------------------------------
(* Claims about the settings cache (specification SpecCache) *)

\* C33: between two calls of clearPortCache each of the four getters reads
\* the settings file at most once and every call returns what the first one
\* returned, whatever happens to the file; the first call after
\* clearPortCache (or after load) reads the file as it is then.
C33_CachedUntilCleared ==
    /\ [](\A g \in Getters : cReads[g] <= 1)
    /\ [](cLast.getter # "none" => cLast.value = cFirst[cLast.getter])
    /\ [][\A g \in Getters :
            (cCalls' = cCalls + 1 /\ cLast'.getter = g /\ cFirst[g] = <<>>)
            => /\ cReads'[g] = 1
               /\ cLast'.value = <<ReadSetting(g, cFile)>>]_vars

\* a second call of getWorkerPort returns the cached port although the file
\* now holds another one
C33_Witness ==
    /\ cCalls >= 2
    /\ cLast.getter = "port"
    /\ cReads["port"] = 1
    /\ cLast.value # <<ReadSetting("port", cFile)>>


----------------------------------------------------------------------------
(* Claims about installDeps (specification SpecInstall) *)

\* C35: installDeps runs 'bun install', 'bun install --force' and
\* 'npm install' in that order, each only after all earlier ones failed; the
\* marker is written only after one of them succeeded; when all three have
\* failed installDeps has thrown, the marker is untouched and needsInstall()
\* is still true.
C35_InstallFallback ==
    /\ Len(iTried) <= 3
    /\ \A i \in 1..Len(iTried) :
          /\ iTried[i].cmd = InstallCommands[i]
          /\ i < Len(iTried) => ~iTried[i].ok
    /\ iMarker = "fresh" => \E i \in 1..Len(iTried) : iTried[i].ok
    /\ (Len(iTried) = 3 /\ ~iTried[3].ok) =>
          /\ iPc = "thrown"
          /\ iMarker # "fresh"
          /\ needsInstall(iNodeModules, iMarker)

====
